---- MODULE Spec2Model ----
(***************************************************************************)
(* NaviTag metadata aggregation: api::search_all and the four provider     *)
(* clients (Apple Music, Spotify, Genius, Last.fm).                        *)
(*                                                                         *)
(* One behaviour is either one search_all call (target = "all") or a       *)
(* caller that drives one provider client directly (target = provider),    *)
(* the Spotify client possibly several times on the same instance.         *)
(* Every HTTP request is answered by a nondeterministic response: a        *)
(* transport error, or a status with a body that does or does not parse.   *)
(***************************************************************************)
EXTENDS Integers, Sequences, FiniteSets, TLC

VARIABLES
    settings,      \* the UserSettings snapshot passed to search_all
    target,        \* "all": search_all runs; a provider: its client is called directly
    pc,            \* per provider: where its future / its search call stands
    ret,           \* per provider: what the client's search returned (Result)
    r,             \* per provider: the output of its future in search_all (r1..r4)
    sent,          \* per endpoint: HTTP requests sent during the current call
    access_token,  \* SpotifyClient.access_token (None or a token)
    bearer,        \* the token the client's last Spotify search request carried
    granted,       \* the token the client's last successful token exchange returned
    lastStatus,    \* per provider: status of the last search response received
    hadToken,      \* the Spotify client held a token when the current search began
    first401,      \* the first Spotify search of the current call was answered 401
    calls,         \* direct calls of search made so far on the client
    overtaken,     \* a search of search_all returned results before one placed before it
    agg,           \* search_all: "running", "returned"
    results,       \* the Vec search_all returns
    panicked,      \* a panic unwound out of the call
    wire_provider, \* the provider whose response body is being normalized
    body,          \* the items of that response body, as they came over the wire
    normalized,    \* what the client made of the body (Result)
    retried,       \* what SpotifyClient::search_retry made of the same body (Result)
    app_settings,  \* App.settings
    tasks,         \* per search started by the App: the search_all call it spawned
    search_results, \* App.search_results
    search_images, \* App.search_images
    is_searching,  \* App.is_searching
    is_loading,    \* App.is_loading
    files,         \* App.files
    current_dir,   \* App.current_dir
    thumbs,        \* the download_thumbnail tasks in flight
    toasts,        \* toast::Manager.toasts: the Status values of the toasts it holds
    toast_age,     \* the seconds since the oldest toast it holds was created
    shown,         \* the search whose results search_results holds (0: none yet)
    selected_file_index,    \* App.selected_file_index
    has_unsaved_changes,    \* App.has_unsaved_changes
    last_edit_time,         \* App.last_edit_time: absent, or the seconds elapsed since
    show_exit_confirmation, \* App.show_exit_confirmation
    window,        \* the application window: "open", "closed"
    disk,          \* per path: the tags last written to the file
    picking,       \* a pick_folder dialog is open
    loads,         \* the folders whose load_files task is in flight
    covers,        \* the download_image tasks in flight
    save_queued,   \* a SavePressed produced by Tick awaits its delivery
    pending_edit,  \* the path of the file edited by hand, no save attempted on it since
    edits,         \* the edits and Apply presses handled so far
    opens          \* the Open Folder presses handled so far

\* the state of the normalization of one response body
normVars == <<wire_provider, body, normalized, retried>>

\* the state of the App and of the searches it spawned
appVars == <<app_settings, tasks>>

\* the search panel, the file list and the thumbnail tasks of the App
uiVars == <<search_results, search_images, is_searching, is_loading, files,
           current_dir, thumbs, toasts, toast_age, shown>>

\* what went over the wire for the Spotify client
tokenVars == <<bearer, granted>>

\* the editor of the App: selection, edits, saving, closing, toasts
editVars == <<selected_file_index, has_unsaved_changes, last_edit_time,
             show_exit_confirmation, window, disk, picking, loads, covers,
             save_queued, pending_edit, edits, opens>>

vars == <<settings, target, pc, ret, r, sent, access_token, lastStatus,
          hadToken, first401, calls, overtaken, agg, results, panicked,
          normVars, appVars, uiVars, tokenVars, editVars>>

----------------------------------------------------------------------------
(* Bounds *)

\* most items in one provider response
MaxItems == 2

\* most search calls on one directly driven client instance
MaxCalls == 2

\* where a request counter stops counting (no call of the code reaches it)
MaxSent == 3

\* most items in a response body that is normalized field by field
MaxTracks == 2

\* most pieces an artwork URL is put together from
MaxChunks == 3

\* most images in the image list of a Last.fm track
MaxImages == 2

----------------------------------------------------------------------------
(* Data *)

Apple == "Apple Music"

Spotify == "Spotify"

Genius == "Genius"

LastFm == "Last.fm"

\* the order of the futures in tokio::join! and of the results.extend calls
ProviderOrder == <<Apple, Spotify, Genius, LastFm>>

Providers == {ProviderOrder[i] : i \in 1..Len(ProviderOrder)}

Endpoints == {"itunes", "spotify_token", "spotify_search", "genius", "lastfm"}

EndpointsOf(p) ==
    CASE p = Apple   -> {"itunes"}
      [] p = Spotify -> {"spotify_token", "spotify_search"}
      [] p = Genius  -> {"genius"}
      [] p = LastFm  -> {"lastfm"}

\* credential strings: empty or not
Creds == {"", "k"}

SettingsSet ==
    [spotify_id : Creds, spotify_secret : Creds, genius_token : Creds,
     lastfm_api_key : Creds, enable_apple_music : BOOLEAN,
     enable_spotify : BOOLEAN, enable_genius : BOOLEAN, enable_lastfm : BOOLEAN]

None == "None"

Tokens == {"t1", "t2"}

\* the item lists a provider's body can hold: 0..MaxItems different items, or
\* MaxItems times the same item
ItemLists ==
    {[i \in 1..n |-> i] : n \in 0..MaxItems} \cup {[i \in 1..MaxItems |-> 1]}

MetadataResult == [title : 1..MaxItems, source : Providers]

\* StatusCode::is_success
IsSuccess(status) == status >= 200 /\ status < 300

Unauthorized == 401

Statuses == {200, Unauthorized, 500}

\* a search response: the send failed, or a status and a body
SearchResponses ==
    {[transport |-> TRUE, status |-> 0, parses |-> FALSE, items |-> <<>>]}
    \cup {[transport |-> FALSE, status |-> s, parses |-> FALSE, items |-> <<>>] :
              s \in Statuses}
    \cup {[transport |-> FALSE, status |-> s, parses |-> TRUE, items |-> l] :
              s \in Statuses, l \in ItemLists}

\* a token endpoint response
TokenResponses ==
    {[transport |-> TRUE, status |-> 0, parses |-> FALSE, token |-> None]}
    \cup {[transport |-> FALSE, status |-> s, parses |-> FALSE, token |-> None] :
              s \in Statuses}
    \cup {[transport |-> FALSE, status |-> s, parses |-> TRUE, token |-> t] :
              s \in Statuses, t \in Tokens}

\* Result<Vec<MetadataResult>, String>
Ok(v) == [ok |-> TRUE, val |-> v, err |-> ""]

Err(e) == [ok |-> FALSE, val |-> <<>>, err |-> e]

NoRet == Err("pending")

\* the map(...).collect() of every client: one record per item, in order
Normalize(p, items) ==
    [i \in 1..Len(items) |-> [title |-> items[i], source |-> p]]

----------------------------------------------------------------------------
(* The provider clients' handling of a search response *)

\* apple_music::search: no status check, the body is parsed whatever the status
AppleHandle(resp) ==
    IF resp.transport THEN Err("request")
    ELSE IF ~resp.parses THEN Err("parse")
    ELSE Ok(Normalize(Apple, resp.items))

GeniusHandle(resp) ==
    IF resp.transport THEN Err("request")
    ELSE IF ~IsSuccess(resp.status) THEN Err("status")
    ELSE IF ~resp.parses THEN Err("parse")
    ELSE Ok(Normalize(Genius, resp.items))

LastFmHandle(resp) ==
    IF resp.transport THEN Err("request")
    ELSE IF ~IsSuccess(resp.status) THEN Err("status")
    ELSE IF ~resp.parses THEN Err("parse")
    ELSE Ok(Normalize(LastFm, resp.items))

Handle(p, resp) ==
    CASE p = Apple  -> AppleHandle(resp)
      [] p = Genius -> GeniusHandle(resp)
      [] p = LastFm -> LastFmHandle(resp)

\* the clients without their empty-credential check
NoPreflight(p) == FALSE

\* GeniusClient::search / LastFmClient::search: the check before any request
PreflightFails(p) ==
    CASE p = Genius -> settings.genius_token = ""
      [] p = LastFm -> settings.lastfm_api_key = ""
      [] OTHER      -> FALSE

\* authenticate before every search, token or not
AlwaysAuth(token) == TRUE

\* a search that never authenticates first
NeverAuth(token) == FALSE

\* SpotifyClient::search: if self.access_token.is_none()
NeedsAuth(token) == token = None

\* SpotifyClient::search: response.status() == StatusCode::UNAUTHORIZED
IsUnauthorized(resp) == ~resp.transport /\ resp.status = Unauthorized

\* an authenticate that stores the token of any body that parses, then tests the status
AuthenticateEager(resp, token) ==
    IF resp.transport THEN [ok |-> FALSE, token |-> token]
    ELSE IF ~resp.parses THEN [ok |-> FALSE, token |-> token]
    ELSE [ok |-> IsSuccess(resp.status), token |-> resp.token]

\* SpotifyClient::authenticate on a token response: the Result and the token field after
Authenticate(resp, token) ==
    IF resp.transport THEN [ok |-> FALSE, token |-> token]
    ELSE IF ~IsSuccess(resp.status) THEN [ok |-> FALSE, token |-> token]
    ELSE IF ~resp.parses THEN [ok |-> FALSE, token |-> token]
    ELSE [ok |-> TRUE, token |-> resp.token]

\* SpotifyClient::search on the response to its first search request
\* (the 401 case is the caller's: it re-authenticates)
SpotifyHandle(resp) ==
    IF resp.transport THEN Err("request")
    ELSE IF ~IsSuccess(resp.status) THEN Err("status")
    ELSE IF ~resp.parses THEN Err("parse")
    ELSE Ok(Normalize(Spotify, resp.items))

\* the retried search tagging its records as another client's
SpotifyRetryMistagged(resp) ==
    IF resp.transport THEN Err("request")
    ELSE IF ~resp.parses THEN Err("parse")
    ELSE Ok(Normalize(Apple, resp.items))

\* SpotifyClient::search_retry on the response to the retried search
SpotifyRetryHandle(resp) ==
    IF resp.transport THEN Err("request")
    ELSE IF ~resp.parses THEN Err("parse")
    ELSE Ok(Normalize(Spotify, resp.items))

----------------------------------------------------------------------------
(* search_all *)

\* the enable flag of a provider
EnableFlag(p) ==
    CASE p = Apple   -> settings.enable_apple_music
      [] p = Spotify -> settings.enable_spotify
      [] p = Genius  -> settings.enable_genius
      [] p = LastFm  -> settings.enable_lastfm

\* the condition of each async block of search_all, on the settings s it is given
EligibleIn(s, p) ==
    CASE p = Apple   -> s.enable_apple_music
      [] p = Spotify -> s.enable_spotify /\ s.spotify_id # ""
      [] p = Genius  -> s.enable_genius /\ s.genius_token # ""
      [] p = LastFm  -> s.enable_lastfm /\ s.lastfm_api_key # ""

\* every block decides on the credential alone, the enable flags unread
EligibleByCredential(p) ==
    CASE p = Apple   -> TRUE
      [] p = Spotify -> settings.spotify_id # ""
      [] p = Genius  -> settings.genius_token # ""
      [] p = LastFm  -> settings.lastfm_api_key # ""

\* the Spotify block forgets its enable flag
EligibleNoFlag(p) ==
    CASE p = Apple   -> settings.enable_apple_music
      [] p = Spotify -> settings.spotify_id # ""
      [] p = Genius  -> settings.enable_genius /\ settings.genius_token # ""
      [] p = LastFm  -> settings.enable_lastfm /\ settings.lastfm_api_key # ""

\* the condition of each async block of search_all
Eligible(p) == EligibleIn(settings, p)

\* unwrap in place of unwrap_or_default: an Err panics
UnwrapPanics(res) ==
    [val |-> res.val, panic |-> ~res.ok]

\* unwrap_or_default on a client's Result
UnwrapOrDefault(res) ==
    [val |-> IF res.ok THEN res.val ELSE <<>>, panic |-> FALSE]

\* select-like: the first completed future ends the wait
JoinAny == \E p \in Providers : pc[p] = "done"

\* tokio::join! completes when every future has completed
JoinReady == \A p \in Providers : pc[p] = "done"

RECURSIVE Dedup(_)
\* a list without the repetitions of its records
Dedup(seq) ==
    IF seq = <<>> THEN <<>>
    ELSE LET front == Dedup(SubSeq(seq, 1, Len(seq) - 1))
             last == seq[Len(seq)]
         IN  IF \E i \in 1..Len(front) : front[i] = last
             THEN front ELSE Append(front, last)

\* the four lists joined and de-duplicated
ExtendDedup(r1, r2, r3, r4) == Dedup(r1 \o r2 \o r3 \o r4)

\* two extend calls in the wrong order
ExtendSwapped(r1, r2, r3, r4) == r1 \o r3 \o r2 \o r4

\* results.extend(r1); ... results.extend(r4)
Extend(r1, r2, r3, r4) == r1 \o r2 \o r3 \o r4

InFlight(p) == pc[p] \in {"wait", "auth", "search", "reauth", "retry"}

Running == agg = "running" /\ ~panicked

Place(p) == CHOOSE i \in 1..Len(ProviderOrder) : ProviderOrder[i] = p

\* the search of p returns a non-empty list while the search of a provider placed
\* before it in join! is still to complete
Overtakes(p, res) ==
    /\ res.ok /\ res.val # <<>>
    /\ \E q \in Providers : Place(q) < Place(p) /\ Eligible(q) /\ pc[q] # "done"

\* a failing search clears what the other futures produced
FinishClearing(p, res) ==
    /\ ret' = [ret EXCEPT ![p] = res]
    /\ pc' = [pc EXCEPT ![p] = "done"]
    /\ IF target = "all"
       THEN /\ r' = IF res.ok THEN [r EXCEPT ![p] = res.val]
                    ELSE [q \in Providers |-> <<>>]
            /\ panicked' = FALSE
            /\ overtaken' = (overtaken \/ Overtakes(p, res))
       ELSE UNCHANGED <<r, panicked, overtaken>>

\* the search of provider p ends with Result res
Finish(p, res) ==
    /\ ret' = [ret EXCEPT ![p] = res]
    /\ pc' = [pc EXCEPT ![p] = "done"]
    /\ IF target = "all"
       THEN /\ r' = [r EXCEPT ![p] = UnwrapOrDefault(res).val]
            /\ panicked' = UnwrapOrDefault(res).panic
            /\ overtaken' = (overtaken \/ Overtakes(p, res))
       ELSE UNCHANGED <<r, panicked, overtaken>>

\* one more request to endpoint e
Send(e) == sent' = [sent EXCEPT ![e] = IF @ < MaxSent THEN @ + 1 ELSE @]

EndpointOf(p) == CHOOSE e \in EndpointsOf(p) : e # "spotify_token"

\* the client of p is constructed and its search called: up to the first await
ClientCall(p) ==
    IF p = Spotify
    THEN \* SpotifyClient::search: authenticate first when there is no token
         /\ hadToken' = (access_token # None)
         /\ first401' = FALSE
         /\ lastStatus' = [lastStatus EXCEPT ![p] = 0]
         /\ ret' = [ret EXCEPT ![p] = NoRet]
         /\ IF NeedsAuth(access_token)
            THEN /\ sent' = [e \in Endpoints |->
                               IF e = "spotify_token" THEN 1
                               ELSE IF e = "spotify_search" THEN 0 ELSE sent[e]]
                 /\ pc' = [pc EXCEPT ![p] = "auth"]
                 /\ UNCHANGED bearer
            ELSE /\ sent' = [e \in Endpoints |->
                               IF e = "spotify_search" THEN 1
                               ELSE IF e = "spotify_token" THEN 0 ELSE sent[e]]
                 /\ pc' = [pc EXCEPT ![p] = "search"]
                 /\ bearer' = access_token
         /\ UNCHANGED <<access_token, granted, r, panicked, overtaken>>
    ELSE /\ IF PreflightFails(p)
            THEN /\ Finish(p, Err("config"))
                 /\ sent' = [sent EXCEPT ![EndpointOf(p)] = 0]
            ELSE /\ sent' = [sent EXCEPT ![EndpointOf(p)] = 1]
                 /\ pc' = [pc EXCEPT ![p] = "wait"]
                 /\ ret' = [ret EXCEPT ![p] = NoRet]
                 /\ UNCHANGED <<r, panicked, overtaken>>
         /\ lastStatus' = [lastStatus EXCEPT ![p] = 0]
         /\ UNCHANGED <<access_token, hadToken, first401, tokenVars>>

\* the four blocks awaited one after the other
AwaitedInTurn(p) == \A q \in Providers : Place(q) < Place(p) => pc[q] = "done"

\* tokio::join!(apple_future, spotify_future, genius_future, lastfm_future): every
\* future is polled, whatever the others are waiting for
JoinPolls(p) == TRUE

\* one async block of search_all, polled for the first time
BranchStart(p) ==
    /\ target = "all"
    /\ Running
    /\ pc[p] = "init"
    /\ JoinPolls(p)
    /\ IF Eligible(p)
       THEN ClientCall(p)
       ELSE /\ pc' = [pc EXCEPT ![p] = "done"]
            /\ r' = [r EXCEPT ![p] = <<>>]
            /\ UNCHANGED <<ret, sent, access_token, lastStatus, hadToken,
                           first401, panicked, overtaken, tokenVars>>
    /\ UNCHANGED <<settings, target, calls, agg, results>>
    /\ UNCHANGED <<normVars, appVars, uiVars, editVars>>

\* a client behind a shared reference: a call may begin while another is in progress
Shared(p) == TRUE

\* search(&mut self): the exclusive borrow lasts until the call's future completes, so
\* a call begins only when none is in progress on the client
Exclusive(p) == pc[p] \in {"init", "done"}

\* a caller other than search_all constructs the client of p (once) and calls search
DirectCall(p) ==
    /\ target = p
    /\ ~panicked
    /\ Exclusive(p)
    /\ calls < MaxCalls
    /\ calls' = calls + 1
    /\ ClientCall(p)
    /\ UNCHANGED <<settings, target, agg, results>>
    /\ UNCHANGED <<normVars, appVars, uiVars, editVars>>

\* the response to the search request of Apple Music, Genius or Last.fm arrives
Respond(p) ==
    /\ p # Spotify
    /\ ~panicked
    /\ pc[p] = "wait"
    /\ \E resp \in SearchResponses :
          /\ Finish(p, Handle(p, resp))
          /\ lastStatus' = [lastStatus EXCEPT ![p] = resp.status]
    /\ UNCHANGED <<settings, target, sent, access_token, hadToken, first401,
                   calls, agg, results>>
    /\ UNCHANGED <<normVars, appVars, uiVars, tokenVars, editVars>>

\* the client is a local of the async block: dropped when the block ends
TokenAfter(tok) == IF target = "all" THEN None ELSE tok

\* the record of the wire goes with the client
Dropped ==
    /\ bearer' = TokenAfter(bearer)
    /\ granted' = TokenAfter(granted)

\* a retried search that sends the token the 401 rejected
RetryBearerStale(old, new) == old

\* SpotifyClient::search after authenticate: let token = self.access_token
\* .as_ref().unwrap(), handed to search_retry for its Authorization header
RetryBearer(old, new) == new

\* SpotifyClient::search, cold client: the token response arrives
AuthResponse ==
    /\ ~panicked
    /\ pc[Spotify] = "auth"
    /\ \E resp \in TokenResponses :
          LET a == Authenticate(resp, access_token) IN
          IF ~a.ok
          THEN /\ Finish(Spotify, Err("auth"))
               /\ access_token' = TokenAfter(a.token)
               /\ Dropped
               /\ UNCHANGED sent
          ELSE IF a.token = None
          THEN \* access_token.as_ref().unwrap() on None
               /\ panicked' = TRUE
               /\ access_token' = a.token
               /\ UNCHANGED <<pc, ret, r, overtaken, sent, tokenVars>>
          ELSE /\ access_token' = a.token
               /\ granted' = resp.token
               /\ bearer' = a.token
               /\ Send("spotify_search")
               /\ pc' = [pc EXCEPT ![Spotify] = "search"]
               /\ UNCHANGED <<ret, r, overtaken, panicked>>
    /\ UNCHANGED <<settings, target, lastStatus, hadToken, first401, calls,
                   agg, results>>
    /\ UNCHANGED <<normVars, appVars, uiVars, editVars>>

\* SpotifyClient::search: the response to the first search request arrives
SearchResponse ==
    /\ ~panicked
    /\ pc[Spotify] = "search"
    /\ \E resp \in SearchResponses :
          /\ lastStatus' = [lastStatus EXCEPT ![Spotify] = resp.status]
          /\ IF IsUnauthorized(resp)
             THEN \* self.authenticate() again; the token field is not cleared
                  /\ first401' = TRUE
                  /\ Send("spotify_token")
                  /\ pc' = [pc EXCEPT ![Spotify] = "reauth"]
                  /\ UNCHANGED <<ret, r, overtaken, panicked, access_token,
                                 tokenVars>>
             ELSE /\ Finish(Spotify, SpotifyHandle(resp))
                  /\ access_token' = TokenAfter(access_token)
                  /\ Dropped
                  /\ UNCHANGED <<first401, sent>>
    /\ UNCHANGED <<settings, target, hadToken, calls, agg, results>>
    /\ UNCHANGED <<normVars, appVars, uiVars, editVars>>

\* SpotifyClient::search after a 401: the second token response arrives
ReauthResponse ==
    /\ ~panicked
    /\ pc[Spotify] = "reauth"
    /\ \E resp \in TokenResponses :
          LET a == Authenticate(resp, access_token) IN
          IF ~a.ok
          THEN /\ Finish(Spotify, Err("auth"))
               /\ access_token' = TokenAfter(a.token)
               /\ Dropped
               /\ UNCHANGED sent
          ELSE IF a.token = None
          THEN /\ panicked' = TRUE
               /\ access_token' = a.token
               /\ UNCHANGED <<pc, ret, r, overtaken, sent, tokenVars>>
          ELSE /\ access_token' = a.token
               /\ granted' = resp.token
               /\ bearer' = RetryBearer(access_token, a.token)
               /\ Send("spotify_search")
               /\ pc' = [pc EXCEPT ![Spotify] = "retry"]
               /\ UNCHANGED <<ret, r, overtaken, panicked>>
    /\ UNCHANGED <<settings, target, lastStatus, hadToken, first401, calls,
                   agg, results>>
    /\ UNCHANGED <<normVars, appVars, uiVars, editVars>>

\* a retried search that treats 401 as the first search does: authenticate and
\* retry again
RetryLoops ==
    /\ ~panicked
    /\ pc[Spotify] = "retry"
    /\ \E resp \in SearchResponses :
          /\ lastStatus' = [lastStatus EXCEPT ![Spotify] = resp.status]
          /\ IF IsUnauthorized(resp)
             THEN /\ Send("spotify_token")
                  /\ pc' = [pc EXCEPT ![Spotify] = "reauth"]
                  /\ UNCHANGED <<ret, r, overtaken, panicked, access_token,
                                 tokenVars>>
             ELSE /\ Finish(Spotify, SpotifyRetryHandle(resp))
                  /\ access_token' = TokenAfter(access_token)
                  /\ Dropped
                  /\ UNCHANGED sent
    /\ UNCHANGED <<settings, target, hadToken, first401, calls, agg, results>>
    /\ UNCHANGED <<normVars, appVars, uiVars, editVars>>

\* SpotifyClient::search_retry: the response to the retried search arrives
RetryResponse ==
    /\ ~panicked
    /\ pc[Spotify] = "retry"
    /\ \E resp \in SearchResponses :
          /\ lastStatus' = [lastStatus EXCEPT ![Spotify] = resp.status]
          /\ Finish(Spotify, SpotifyRetryHandle(resp))
          /\ access_token' = TokenAfter(access_token)
          /\ Dropped
    /\ UNCHANGED <<settings, target, sent, hadToken, first401, calls, agg,
                   results>>
    /\ UNCHANGED <<normVars, appVars, uiVars, editVars>>

\* tokio::join! yields (r1, r2, r3, r4); the four extends; search_all returns
Return ==
    /\ target = "all"
    /\ Running
    /\ JoinReady
    /\ results' = Extend(r[Apple], r[Spotify], r[Genius], r[LastFm])
    /\ agg' = "returned"
    /\ UNCHANGED <<settings, target, pc, ret, r, sent, access_token,
                   lastStatus, hadToken, first401, calls, overtaken, panicked>>
    /\ UNCHANGED <<normVars, appVars, uiVars, tokenVars, editVars>>

\* no response body is being normalized
NormIdle ==
    /\ wire_provider = Apple
    /\ body = <<>>
    /\ normalized = NoRet
    /\ retried = NoRet

\* the files of the opened folder
MaxFiles == 1

\* a file as load_files read it
LoadedFile == [title |-> "", artist |-> "", album |-> ""]

\* a folder is open (current_dir is Some), its files loaded, nothing searched yet
UiStart ==
    /\ search_results = <<>>
    /\ search_images = <<>>
    /\ is_searching = FALSE
    /\ is_loading = FALSE
    /\ files = [i \in 1..MaxFiles |-> LoadedFile]
    /\ current_dir = <<"Album A">>
    /\ thumbs = {}
    /\ toasts = {}
    /\ toast_age = <<>>
    /\ shown = 0

\* no file selected, nothing edited, no task of the editor in flight, no toast
EditStart ==
    /\ selected_file_index = <<>>
    /\ has_unsaved_changes = FALSE
    /\ last_edit_time = <<>>
    /\ show_exit_confirmation = FALSE
    /\ window = "open"
    /\ disk = <<>>
    /\ picking = FALSE
    /\ loads = {}
    /\ covers = {}
    /\ save_queued = FALSE
    /\ pending_edit = <<>>
    /\ edits = 0
    /\ opens = 0

\* UserSettings::default
DefaultSettings ==
    [spotify_id |-> "", spotify_secret |-> "", genius_token |-> "",
     lastfm_api_key |-> "", enable_apple_music |-> TRUE,
     enable_spotify |-> FALSE, enable_genius |-> FALSE, enable_lastfm |-> FALSE]

Init ==
    /\ settings \in SettingsSet
    /\ target \in {"all"} \cup Providers
    /\ pc = [p \in Providers |-> "init"]
    /\ ret = [p \in Providers |-> NoRet]
    /\ r = [p \in Providers |-> <<>>]
    /\ sent = [e \in Endpoints |-> 0]
    /\ access_token = None
    /\ bearer = None
    /\ granted = None
    /\ lastStatus = [p \in Providers |-> 0]
    /\ hadToken = FALSE
    /\ first401 = FALSE
    /\ calls = 0
    /\ overtaken = FALSE
    /\ agg = "running"
    /\ results = <<>>
    /\ panicked = FALSE
    /\ NormIdle
    /\ app_settings = DefaultSettings
    /\ tasks = <<>>
    /\ UiStart
    /\ EditStart

Next ==
    \/ \E p \in Providers : BranchStart(p)
    \/ \E p \in Providers : DirectCall(p)
    \/ \E p \in Providers : Respond(p)
    \/ AuthResponse
    \/ SearchResponse
    \/ ReauthResponse
    \/ RetryResponse
    \/ Return

Spec == Init /\ [][Next]_vars

\* one search_all call, every credential set: the enable flags alone decide which
\* providers are queried
InitSearchAll ==
    /\ Init
    /\ target = "all"
    /\ settings.spotify_id # "" /\ settings.spotify_secret # ""
    /\ settings.genius_token # "" /\ settings.lastfm_api_key # ""

NextSearchAll ==
    \/ \E p \in Providers : BranchStart(p)
    \/ \E p \in Providers : Respond(p)
    \/ AuthResponse
    \/ SearchResponse
    \/ ReauthResponse
    \/ RetryResponse
    \/ Return

\* every request in flight is eventually answered and every ready future is
\* eventually polled: some enabled step is eventually taken
FairSpec == InitSearchAll /\ [][NextSearchAll]_vars /\ WF_vars(NextSearchAll)

----------------------------------------------------------------------------
(* The clients' normalization of a response body, field by field *)

\* Option<T>: None, Some(v). A key of a JSON object that is missing reads as None.
Absent == <<>>

Some(v) == <<v>>

OptOf(S) == {Absent} \cup {Some(v) : v \in S}

\* Option<String>::unwrap_or_default
OptionOrDefault(o) == IF o = Absent THEN "" ELSE o[1]

SeqsUpTo(S, n) == UNION {[1..k -> S] : k \in 0..n}

RECURSIVE Flatten(_)
\* the string made of the pieces of ss, one after the other
Flatten(ss) == IF ss = <<>> THEN <<>> ELSE Head(ss) \o Flatten(Tail(ss))

\* a URL is a string: a sequence of characters, and of pieces that hold no
\* character of the pattern at either end
Pattern100 == <<"1", "0", "0", "x", "1", "0", "0">>

Pattern600 == <<"6", "0", "0", "x", "6", "0", "0">>

Chunks == {Pattern100, <<"1", "0", "0", "x">>, <<"http://x/">>, <<"bb.jpg">>}

Urls == {Flatten(cs) : cs \in SeqsUpTo(Chunks, MaxChunks)}

RECURSIVE ReplaceFirst(_, _, _)
\* str::replacen(from, to, 1): the first match alone
ReplaceFirst(u, from, to) ==
    IF Len(u) < Len(from) THEN u
    ELSE IF SubSeq(u, 1, Len(from)) = from
    THEN to \o SubSeq(u, Len(from) + 1, Len(u))
    ELSE <<Head(u)>> \o ReplaceFirst(Tail(u), from, to)

RECURSIVE Replace(_, _, _)
\* str::replace(from, to): every match, found left to right, the search going on
\* after the end of each match
Replace(u, from, to) ==
    IF Len(u) < Len(from) THEN u
    ELSE IF SubSeq(u, 1, Len(from)) = from
    THEN to \o Replace(SubSeq(u, Len(from) + 1, Len(u)), from, to)
    ELSE <<Head(u)>> \o Replace(Tail(u), from, to)

Titles == {"Song A", "Song B"}

ScenarioUrl == <<"http://x/">> \o Pattern100 \o <<"bb.jpg">>

\* ItunesTrack as it comes over the wire: every key may be missing
ItunesTracks ==
    [trackName : OptOf(Titles), artistName : OptOf({"Artist A"}),
     collectionName : OptOf({"Album A"}), artworkUrl100 : OptOf({ScenarioUrl})]

\* the tracks that differ in their artwork URL alone
ArtworkTracks ==
    {[trackName |-> Some("Song A"), artistName |-> Some("Artist A"),
      collectionName |-> Some("Album A"), artworkUrl100 |-> o] : o \in OptOf(Urls)}

\* GeniusSong over the wire
GeniusSongs ==
    [title : OptOf(Titles), artist_names : OptOf({"Artist A"}),
     song_art_image_url : OptOf({<<"u1">>})]

\* LastFmImage: #text and size
LastFmImages ==
    [url : {<<>>, <<"u1">>, <<"u2">>}, size : {"extralarge", "large", "medium"}]

ImageLists == SeqsUpTo(LastFmImages, MaxImages)

\* LastFmTrack over the wire
LastFmTracks ==
    [name : OptOf(Titles), artist : OptOf({"Artist A"}),
     image : OptOf({<<>>, <<[url |-> <<"u1">>, size |-> "large"]>>})]

\* the tracks that differ in their image list alone
ImageTracks ==
    {[name |-> Some("Song A"), artist |-> Some("Artist A"), image |-> Some(l)] :
        l \in ImageLists}

\* Track over the wire: name, album.name, album.images (their urls), artists
\* (their names)
SpotifyTracks ==
    [name : OptOf({"Song A"}), album_name : OptOf({"Album A"}),
     images : OptOf({<<>>, <<<<"u1">>, <<"u2">>>>}),
     artists : OptOf({<<>>, <<"Artist A", "Artist B">>})]

\* the response bodies a client is given
Bodies(p) ==
    CASE p = Apple   -> SeqsUpTo(ItunesTracks, MaxTracks)
                        \cup {<<t>> : t \in ArtworkTracks}
      [] p = Spotify -> SeqsUpTo(SpotifyTracks, MaxTracks)
      [] p = Genius  -> SeqsUpTo(GeniusSongs, MaxTracks)
      [] p = LastFm  -> SeqsUpTo(LastFmTracks, MaxTracks)
                        \cup {<<t>> : t \in ImageTracks}

\* apple_music::search, the closure of map
AppleMap(t) ==
    [title |-> OptionOrDefault(t.trackName),
     artist |-> OptionOrDefault(t.artistName),
     album |-> OptionOrDefault(t.collectionName),
     cover_url |-> IF t.artworkUrl100 = Absent THEN Absent
                   ELSE Some(Replace(t.artworkUrl100[1], Pattern100, Pattern600)),
     source |-> Apple]

\* the records collected last item first
AppleNormalizeReversed(items) ==
    [i \in 1..Len(items) |-> AppleMap(items[Len(items) + 1 - i])]

\* response.results.into_iter().map(...).collect()
AppleNormalize(items) == [i \in 1..Len(items) |-> AppleMap(items[i])]

\* every field of ItunesTrack is an Option: a body with a results array parses
AppleSearchBody(items) == Ok(AppleNormalize(items))

\* serde: a missing key of type String fails the parse of the whole body
GeniusParses(items) ==
    \A i \in 1..Len(items) :
        items[i].title # Absent /\ items[i].artist_names # Absent

GeniusMap(h) ==
    [title |-> h.title[1], artist |-> h.artist_names[1],
     album |-> "Unknown (Genius)", cover_url |-> h.song_art_image_url,
     source |-> Genius]

GeniusNormalize(items) == [i \in 1..Len(items) |-> GeniusMap(items[i])]

GeniusSearchBody(items) ==
    IF GeniusParses(items) THEN Ok(GeniusNormalize(items)) ELSE Err("parse")

LastFmParses(items) ==
    \A i \in 1..Len(items) : items[i].name # Absent /\ items[i].artist # Absent

\* images.iter().find(|i| i.size == size): the place of the first match, 0 if none
Find(images, size) ==
    IF \E k \in 1..Len(images) : images[k].size = size
    THEN CHOOSE k \in 1..Len(images) :
            /\ images[k].size = size
            /\ \A j \in 1..(k - 1) : images[j].size # size
    ELSE 0

\* a selection that takes any image of the size that has a URL
LastFmCoverAny(image) ==
    IF image = Absent THEN Absent
    ELSE LET images == image[1]
             Has(size) == \E k \in 1..Len(images) :
                              images[k].size = size /\ images[k].url # <<>>
             Pick(size) == CHOOSE k \in 1..Len(images) :
                              images[k].size = size /\ images[k].url # <<>>
         IN  IF Has("extralarge") THEN Some(images[Pick("extralarge")].url)
             ELSE IF Has("large") THEN Some(images[Pick("large")].url)
             ELSE Absent

\* LastFmClient::search: best_image
LastFmCover(image) ==
    IF image = Absent THEN Absent
    ELSE LET images == image[1]
             xl == Find(images, "extralarge")
             lg == Find(images, "large")
             first == IF xl # 0 /\ images[xl].url # <<>>
                      THEN Some(images[xl].url) ELSE Absent
         IN  IF first # Absent THEN first
             ELSE IF lg # 0 /\ images[lg].url # <<>>
             THEN Some(images[lg].url) ELSE Absent

LastFmMap(track) ==
    [title |-> track.name[1], artist |-> track.artist[1],
     album |-> "Unknown (Last.fm)", cover_url |-> LastFmCover(track.image),
     source |-> LastFm]

LastFmNormalize(items) == [i \in 1..Len(items) |-> LastFmMap(items[i])]

LastFmSearchBody(items) ==
    IF LastFmParses(items) THEN Ok(LastFmNormalize(items)) ELSE Err("parse")

SpotifyParses(items) ==
    \A i \in 1..Len(items) :
        /\ items[i].name # Absent /\ items[i].album_name # Absent
        /\ items[i].images # Absent /\ items[i].artists # Absent

\* SpotifyClient::search, the closure of map
SpotifyMap(t) ==
    [title |-> t.name[1],
     artist |-> IF t.artists[1] = <<>> THEN "" ELSE Head(t.artists[1]),
     album |-> t.album_name[1],
     cover_url |-> IF t.images[1] = <<>> THEN Absent ELSE Some(Head(t.images[1])),
     source |-> Spotify]

SpotifyNormalize(items) == [i \in 1..Len(items) |-> SpotifyMap(items[i])]

SpotifySearchBody(items) ==
    IF SpotifyParses(items) THEN Ok(SpotifyNormalize(items)) ELSE Err("parse")

\* the settings with provider p enabled, its credentials set, and no other
OnlyEnabled(p) ==
    [spotify_id |-> "k", spotify_secret |-> "k", genius_token |-> "k",
     lastfm_api_key |-> "k", enable_apple_music |-> p = Apple,
     enable_spotify |-> p = Spotify, enable_genius |-> p = Genius,
     enable_lastfm |-> p = LastFm]

\* a client is handed a body that arrived with a success status
InitNorm ==
    /\ wire_provider \in Providers
    /\ body \in Bodies(wire_provider)
    /\ normalized = NoRet
    /\ retried = NoRet
    /\ settings = OnlyEnabled(wire_provider)
    /\ target = "all"
    /\ pc = [p \in Providers |-> "init"]
    /\ ret = [p \in Providers |-> NoRet]
    /\ r = [p \in Providers |-> <<>>]
    /\ sent = [e \in Endpoints |-> 0]
    /\ access_token = None
    /\ bearer = None
    /\ granted = None
    /\ lastStatus = [p \in Providers |-> 0]
    /\ hadToken = FALSE
    /\ first401 = FALSE
    /\ calls = 0
    /\ overtaken = FALSE
    /\ agg = "running"
    /\ results = <<>>
    /\ panicked = FALSE
    /\ app_settings = DefaultSettings
    /\ tasks = <<>>
    /\ UiStart
    /\ EditStart

NormUnchanged ==
    UNCHANGED <<settings, target, pc, ret, r, sent, access_token, lastStatus,
                hadToken, first401, calls, overtaken, panicked, wire_provider,
                body, appVars, uiVars, tokenVars, editVars>>

\* a retried search that takes the last artist and the last image
SpotifyRetryMapLast(t) ==
    [title |-> t.name[1],
     artist |-> IF t.artists[1] = <<>> THEN ""
                ELSE t.artists[1][Len(t.artists[1])],
     album |-> t.album_name[1],
     cover_url |-> IF t.images[1] = <<>> THEN Absent
                   ELSE Some(t.images[1][Len(t.images[1])]),
     source |-> Spotify]

\* SpotifyClient::search_retry, the closure of map
SpotifyRetryMap(t) ==
    [title |-> t.name[1],
     artist |-> IF t.artists[1] = <<>> THEN "" ELSE Head(t.artists[1]),
     album |-> t.album_name[1],
     cover_url |-> IF t.images[1] = <<>> THEN Absent ELSE Some(Head(t.images[1])),
     source |-> Spotify]

SpotifyRetryNormalize(items) ==
    [i \in 1..Len(items) |-> SpotifyRetryMap(items[i])]

\* search_retry: the body of the retried search is parsed and mapped
SpotifyRetryBody(items) ==
    IF SpotifyParses(items) THEN Ok(SpotifyRetryNormalize(items)) ELSE Err("parse")

AppleNormalized ==
    /\ wire_provider = Apple /\ normalized = NoRet
    /\ normalized' = AppleSearchBody(body)
    /\ UNCHANGED <<agg, results, retried>>
    /\ NormUnchanged

SpotifyNormalized ==
    /\ wire_provider = Spotify /\ normalized = NoRet
    /\ normalized' = SpotifySearchBody(body)
    /\ UNCHANGED <<agg, results, retried>>
    /\ NormUnchanged

GeniusNormalized ==
    /\ wire_provider = Genius /\ normalized = NoRet
    /\ normalized' = GeniusSearchBody(body)
    /\ UNCHANGED <<agg, results, retried>>
    /\ NormUnchanged

LastFmNormalized ==
    /\ wire_provider = LastFm /\ normalized = NoRet
    /\ normalized' = LastFmSearchBody(body)
    /\ UNCHANGED <<agg, results, retried>>
    /\ NormUnchanged

\* the output of the future of p in a search_all whose client of wire_provider
\* returned normalized
OnlyOutput(p) ==
    IF Eligible(p) /\ p = wire_provider THEN UnwrapOrDefault(normalized).val
    ELSE <<>>

\* search_all returns once the one enabled client has returned
ReturnNormalized ==
    /\ normalized # NoRet
    /\ agg = "running"
    /\ results' = Extend(OnlyOutput(Apple), OnlyOutput(Spotify),
                         OnlyOutput(Genius), OnlyOutput(LastFm))
    /\ agg' = "returned"
    /\ UNCHANGED <<normalized, retried>>
    /\ NormUnchanged

\* the same body reaches search_retry, as the answer to the retried search
SpotifyRetryNormalized ==
    /\ wire_provider = Spotify /\ retried = NoRet
    /\ retried' = SpotifyRetryBody(body)
    /\ UNCHANGED <<agg, results, normalized>>
    /\ NormUnchanged

NextNorm ==
    \/ AppleNormalized
    \/ SpotifyNormalized
    \/ GeniusNormalized
    \/ LastFmNormalized
    \/ SpotifyRetryNormalized
    \/ ReturnNormalized

NormSpec == InitNorm /\ [][NextNorm]_vars

----------------------------------------------------------------------------
(* The App: its settings and the searches it spawns *)

\* most searches the App starts in one behaviour
MaxSearches == 2

\* everything enabled, every credential set
AllOn ==
    [spotify_id |-> "k", spotify_secret |-> "k", genius_token |-> "k",
     lastfm_api_key |-> "k", enable_apple_music |-> TRUE,
     enable_spotify |-> TRUE, enable_genius |-> TRUE, enable_lastfm |-> TRUE]

\* the settings the settings view sends with SettingsChanged
SettingsInputs == {DefaultSettings, AllOn}

\* the values typed into the Spotify credential fields
CredInputs == {"k"}

\* the values the Spotify checkbox sends
ToggleInputs == {FALSE}

\* the credentials the client of p is constructed with
CredsOf(s, p) ==
    CASE p = Apple   -> <<>>
      [] p = Spotify -> <<s.spotify_id, s.spotify_secret>>
      [] p = Genius  -> <<s.genius_token>>
      [] p = LastFm  -> <<s.lastfm_api_key>>

\* SearchPressed: let settings = self.settings.clone(); Task::perform(search_all(..))
NewTask(s) ==
    [kind |-> "search", state |-> "spawned", settings |-> s, started_with |-> s,
     queried |-> {}, creds |-> [p \in Providers |-> <<>>], spotify |-> "idle",
     token |-> Absent, exchanges |-> 0, used |-> {}]

\* a search_all that reads the App's settings when it runs
LiveSettings(t) == app_settings

\* the settings search_all works with: the clone moved into its future
TaskSettings(t) == tasks[t].settings

\* the token held by the client of another call, if one holds a token
OtherToken(t) ==
    IF \E o \in 1..Len(tasks) : o # t /\ tasks[o].token # Absent
    THEN tasks[CHOOSE o \in 1..Len(tasks) : o # t /\ tasks[o].token # Absent].token
    ELSE Absent

\* one client for all calls: it still holds the token another call obtained
KeptClientToken(t) == OtherToken(t)

\* SpotifyClient::new for the call t: access_token: None
NewClientToken(t) == Absent

AppUnchanged ==
    UNCHANGED <<settings, target, pc, ret, r, sent, access_token, lastStatus,
                hadToken, first401, calls, overtaken, agg, results, panicked,
                normVars, tokenVars, editVars>>

\* a SearchPressed that leaves the thumbnails of the last search in place
CleanImagesKept(images) == images

\* SearchPressed: self.search_images.clear()
CleanImages(images) == <<>>

\* Message::SearchPressed, the query not empty
SearchPressed ==
    /\ Len(tasks) < MaxSearches
    /\ is_searching' = TRUE
    /\ search_results' = <<>>
    /\ search_images' = CleanImages(search_images)
    /\ tasks' = Append(tasks, NewTask(app_settings))
    /\ UNCHANGED <<app_settings, is_loading, files, current_dir, thumbs, toasts, toast_age,
                   shown>>
    /\ AppUnchanged

\* Message::SettingsChanged(settings)
SettingsChanged(s) ==
    /\ app_settings' = s
    /\ UNCHANGED <<tasks, uiVars>>
    /\ AppUnchanged

\* Message::SpotifyIdChanged(val)
SpotifyIdChanged(val) ==
    /\ app_settings' = [app_settings EXCEPT !.spotify_id = val]
    /\ UNCHANGED <<tasks, uiVars>>
    /\ AppUnchanged

\* Message::SpotifySecretChanged(val)
SpotifySecretChanged(val) ==
    /\ app_settings' = [app_settings EXCEPT !.spotify_secret = val]
    /\ UNCHANGED <<tasks, uiVars>>
    /\ AppUnchanged

\* Message::ToggleSpotify(val)
ToggleSpotify(val) ==
    /\ app_settings' = [app_settings EXCEPT !.enable_spotify = val]
    /\ UNCHANGED <<tasks, uiVars>>
    /\ AppUnchanged

\* the first poll of search_all: tokio::join! polls the four blocks, each tests its
\* condition, constructs its client and sends its first request
TaskPoll(t) ==
    /\ tasks[t].state = "spawned"
    /\ LET s == TaskSettings(t)
           q == {p \in Providers : EligibleIn(s, p)}
           tok == NewClientToken(t)
           cold == tok = Absent
       IN  tasks' = [tasks EXCEPT ![t] =
               [@ EXCEPT !.state = "polled",
                         !.queried = q,
                         !.creds = [p \in Providers |->
                                      IF p \in q THEN CredsOf(s, p) ELSE <<>>],
                         !.spotify = IF Spotify \notin q THEN "done"
                                     ELSE IF cold THEN "auth" ELSE "search",
                         !.token = IF Spotify \in q THEN tok ELSE Absent,
                         !.exchanges = IF Spotify \in q /\ cold THEN 1 ELSE 0,
                         !.used = IF Spotify \in q /\ ~cold
                                  THEN {[tok |-> tok[1], after |-> 0]} ELSE {}]]
    /\ UNCHANGED <<app_settings, uiVars>>
    /\ AppUnchanged

\* SpotifyClient::authenticate of the call t: the token response arrives; on
\* success the search request goes out with the new token
TaskTokenResponse(t) ==
    /\ tasks[t].state = "polled"
    /\ tasks[t].spotify \in {"auth", "reauth"}
    /\ \E ok \in BOOLEAN :
          IF ok
          THEN LET new == [call |-> t, n |-> tasks[t].exchanges] IN
               tasks' = [tasks EXCEPT ![t] =
                   [@ EXCEPT !.token = Some(new),
                             !.used = @ \cup {[tok |-> new,
                                               after |-> tasks[t].exchanges]},
                             !.spotify = IF @ = "auth" THEN "search" ELSE "retry"]]
          ELSE tasks' = [tasks EXCEPT ![t] = [@ EXCEPT !.spotify = "done"]]
    /\ UNCHANGED <<app_settings, uiVars>>
    /\ AppUnchanged

\* the response to a Spotify search request of the call t arrives: a 401 to the
\* first search starts the second token exchange
TaskSearchResponse(t) ==
    /\ tasks[t].state = "polled"
    /\ tasks[t].spotify \in {"search", "retry"}
    /\ \E unauthorized \in BOOLEAN :
          IF unauthorized /\ tasks[t].spotify = "search"
          THEN tasks' = [tasks EXCEPT ![t] =
                   [@ EXCEPT !.spotify = "reauth", !.exchanges = @ + 1]]
          ELSE tasks' = [tasks EXCEPT ![t] = [@ EXCEPT !.spotify = "done"]]
    /\ UNCHANGED <<app_settings, uiVars>>
    /\ AppUnchanged

\* search_all returns; its clients are dropped with it
TaskReturn(t) ==
    /\ tasks[t].state = "polled"
    /\ tasks[t].spotify = "done"
    /\ tasks' = [tasks EXCEPT ![t] = [@ EXCEPT !.state = "returned",
                                               !.token = Absent]]
    /\ UNCHANGED <<app_settings, uiVars>>
    /\ AppUnchanged

\* no search_all call and no client call is modelled step by step
CallIdle ==
    /\ settings = DefaultSettings
    /\ target = "all"
    /\ pc = [p \in Providers |-> "init"]
    /\ ret = [p \in Providers |-> NoRet]
    /\ r = [p \in Providers |-> <<>>]
    /\ sent = [e \in Endpoints |-> 0]
    /\ access_token = None
    /\ bearer = None
    /\ granted = None
    /\ lastStatus = [p \in Providers |-> 0]
    /\ hadToken = FALSE
    /\ first401 = FALSE
    /\ calls = 0
    /\ overtaken = FALSE
    /\ agg = "running"
    /\ results = <<>>
    /\ panicked = FALSE

\* App::new, no search started
InitApp ==
    /\ app_settings \in SettingsInputs
    /\ tasks = <<>>
    /\ UiStart
    /\ EditStart
    /\ NormIdle
    /\ settings = DefaultSettings
    /\ target = "all"
    /\ pc = [p \in Providers |-> "init"]
    /\ ret = [p \in Providers |-> NoRet]
    /\ r = [p \in Providers |-> <<>>]
    /\ sent = [e \in Endpoints |-> 0]
    /\ access_token = None
    /\ bearer = None
    /\ granted = None
    /\ lastStatus = [p \in Providers |-> 0]
    /\ hadToken = FALSE
    /\ first401 = FALSE
    /\ calls = 0
    /\ overtaken = FALSE
    /\ agg = "running"
    /\ results = <<>>
    /\ panicked = FALSE

NextApp ==
    \/ SearchPressed
    \/ \E s \in SettingsInputs : SettingsChanged(s)
    \/ \E val \in CredInputs : SpotifyIdChanged(val)
    \/ \E val \in CredInputs : SpotifySecretChanged(val)
    \/ \E val \in ToggleInputs : ToggleSpotify(val)
    \/ \E t \in 1..Len(tasks) : TaskPoll(t)
    \/ \E t \in 1..Len(tasks) : TaskTokenResponse(t)
    \/ \E t \in 1..Len(tasks) : TaskSearchResponse(t)
    \/ \E t \in 1..Len(tasks) : TaskReturn(t)

AppSpec == InitApp /\ [][NextApp]_vars

----------------------------------------------------------------------------
(* The App: search results and their thumbnails *)

\* most results in one SearchResults or BatchResults message
MaxResults == 2

\* the records a search_all call hands to the App
ResultInputs ==
    {[title |-> "Song A", artist |-> "Artist A", album |-> "Album A",
      cover_url |-> Some(<<"u1">>), source |-> Apple],
     [title |-> "Song B", artist |-> "Artist A", album |-> "Album A",
      cover_url |-> Some(<<"u2">>), source |-> Apple],
     [title |-> "Song B", artist |-> "Artist A", album |-> "Unknown (Genius)",
      cover_url |-> Absent, source |-> Genius]}

ResultLists == SeqsUpTo(ResultInputs, MaxResults)

\* download_thumbnail(Some(url)): the bytes are fetched, decoded, resized to
\* 50x50 and written as PNG; any of these may fail
DownloadThumbnail(url, fetched, decoded) ==
    IF ~fetched THEN Err("fetch")
    ELSE IF ~decoded THEN Err("decode")
    ELSE Ok(<<"png50">> \o url)

\* SearchResults: one download_thumbnail task per result that has a cover_url,
\* each carrying the index of its result
ThumbnailTasks(t, list) ==
    {[of |-> t, index |-> i - 1, url |-> list[i].cover_url[1], result |-> NoRet] :
        i \in {j \in 1..Len(list) : list[j].cover_url # Absent}}

\* a handler that stores the image whatever the index
StoreUnchecked(images, index, bytes) ==
    [i \in 1..(IF index + 1 > Len(images) THEN index + 1 ELSE Len(images)) |->
        IF i = index + 1 THEN Some(bytes)
        ELSE IF i <= Len(images) THEN images[i] ELSE Absent]

\* SearchCoverLoaded(index, Ok(bytes)): if index < len { search_images[index] = Some(bytes) }
StoreThumbnail(images, index, bytes) ==
    IF index < Len(images)
    THEN [images EXCEPT ![index + 1] = Some(bytes)]
    ELSE images

\* BatchResults: the first min(files.len(), results.len()) files take the title,
\* artist and album of the result of the same index
ApplyBatch(fs, list) ==
    [i \in 1..Len(fs) |->
        IF i <= Len(list)
        THEN [fs[i] EXCEPT !.title = list[i].title, !.artist = list[i].artist,
                           !.album = list[i].album]
        ELSE fs[i]]

\* Manager::add(Toast::new(status, ..)): created_at is now
Add(status) ==
    /\ toasts' = toasts \cup {status}
    /\ toast_age' = IF toast_age = Absent THEN Some(0) ELSE toast_age

\* Message::BatchTag with a folder open: search_all on the folder's name
BatchTag ==
    /\ current_dir # Absent
    /\ Len(tasks) < MaxSearches
    /\ is_searching' = TRUE
    /\ is_loading' = TRUE
    /\ tasks' = Append(tasks, [NewTask(app_settings) EXCEPT !.kind = "batch"])
    /\ UNCHANGED <<app_settings, search_results, search_images, files,
                   current_dir, thumbs, toasts, toast_age, shown>>
    /\ AppUnchanged

\* Message::SearchResults(Ok(results)) of the search t
SearchResults(t) ==
    /\ tasks[t].state = "returned" /\ tasks[t].kind = "search"
    /\ \E list \in ResultLists :
          /\ search_results' = list
          /\ search_images' = [i \in 1..Len(list) |-> Absent]
          /\ IF list = <<>> THEN Add("Info")
             ELSE UNCHANGED <<toasts, toast_age>>
          /\ thumbs' = thumbs \cup ThumbnailTasks(t, list)
    /\ is_searching' = FALSE
    /\ shown' = t
    /\ tasks' = [tasks EXCEPT ![t] = [@ EXCEPT !.state = "delivered"]]
    /\ UNCHANGED <<app_settings, is_loading, files, current_dir>>
    /\ AppUnchanged

\* Message::BatchResults(Ok(results)) of the batch search t
BatchResults(t) ==
    /\ tasks[t].state = "returned" /\ tasks[t].kind = "batch"
    /\ \E list \in ResultLists :
          /\ files' = IF list = <<>> THEN files ELSE ApplyBatch(files, list)
          /\ Add(IF list = <<>> THEN "Info" ELSE "Success")
    /\ is_searching' = FALSE
    /\ is_loading' = FALSE
    /\ tasks' = [tasks EXCEPT ![t] = [@ EXCEPT !.state = "delivered"]]
    /\ UNCHANGED <<app_settings, search_results, search_images, current_dir,
                   thumbs, shown>>
    /\ AppUnchanged

\* the download_thumbnail future k completes
ThumbnailDone(k) ==
    /\ k.result = NoRet
    /\ \E fetched \in BOOLEAN, decoded \in BOOLEAN :
          thumbs' = (thumbs \ {k}) \cup
                    {[k EXCEPT !.result = DownloadThumbnail(k.url, fetched, decoded)]}
    /\ UNCHANGED <<app_settings, tasks, search_results, search_images,
                   is_searching, is_loading, files, current_dir, toasts, toast_age, shown>>
    /\ AppUnchanged

\* Message::SearchCoverLoaded(index, result) of the task k
SearchCoverLoaded(k) ==
    /\ k.result # NoRet
    /\ search_images' = IF k.result.ok
                        THEN StoreThumbnail(search_images, k.index, k.result.val)
                        ELSE search_images
    /\ thumbs' = thumbs \ {k}
    /\ UNCHANGED <<app_settings, tasks, search_results, is_searching, is_loading,
                   files, current_dir, toasts, toast_age, shown>>
    /\ AppUnchanged

\* App with the default settings, a folder open
InitUi ==
    /\ InitApp
    /\ app_settings = DefaultSettings

NextUi ==
    \/ SearchPressed
    \/ BatchTag
    \/ \E t \in 1..Len(tasks) : TaskPoll(t)
    \/ \E t \in 1..Len(tasks) : TaskReturn(t)
    \/ \E t \in 1..Len(tasks) : SearchResults(t)
    \/ \E t \in 1..Len(tasks) : BatchResults(t)
    \/ \E k \in thumbs : ThumbnailDone(k)
    \/ \E k \in thumbs : SearchCoverLoaded(k)

UiSpec == InitUi /\ [][NextUi]_vars

----------------------------------------------------------------------------
(* The App: the editor, saving, closing *)

\* the files of the larger of the two folders; the other holds one fewer
MaxFolder == 2

\* most download_image tasks in flight at once
MaxCovers == 1

\* most edits and Apply presses in one behaviour
MaxEdits == 1

\* most Open Folder presses in one behaviour
MaxOpens == 2

\* Tick: time.elapsed() > Duration::from_secs(1)
AutoSaveDelay == 1

\* Toast::new: duration: Duration::from_secs(5)
ToastDuration == 5

\* the folders the dialog can return
Folders == {"Album A", "Album B"}

FolderSize(d) == IF d = "Album A" THEN MaxFolder ELSE MaxFolder - 1

\* the audio files on disk
Paths == {<<d, i>> : d \in Folders, i \in 1..MaxFolder} \ {<<"Album B", MaxFolder>>}

\* path.file_stem()
Stem(path) == <<"01", "02", "03", "04">>[path[2]]

\* a file without any tag
Untagged ==
    [title |-> Absent, artist |-> Absent, album |-> Absent,
     first |-> Absent, last |-> Absent]

UnwrapOr(opt, default) == IF opt = Absent THEN default ELSE opt[1]

\* AudioFile::load: the title or the file stem, the artist and the album or their
\* "Unknown" texts, the first picture of the tag
Load(path) ==
    [path |-> path,
     title |-> UnwrapOr(disk[path].title, Stem(path)),
     artist |-> UnwrapOr(disk[path].artist, "Unknown Artist"),
     album |-> UnwrapOr(disk[path].album, "Unknown Album"),
     picture_data |-> disk[path].first]

\* scan_folder: the audio files of the folder, sorted by path
ScanFolder(d) == [i \in 1..FolderSize(d) |-> Load(<<d, i>>)]

\* AudioFile::save, succeeding: the three texts are set, the picture, if the file
\* has one in memory, is pushed behind the pictures the tag already has
Written(f) ==
    [title |-> Some(f.title), artist |-> Some(f.artist), album |-> Some(f.album),
     first |-> IF disk[f.path].first = Absent THEN f.picture_data
               ELSE disk[f.path].first,
     last |-> IF f.picture_data = Absent THEN disk[f.path].last
              ELSE f.picture_data]

\* the outcomes of saving the files of fs: which of them were written
SaveOutcomes(fs) == SUBSET {fs[i].path : i \in 1..Len(fs)}

\* the disk after the files of fs with a path in ok were written
DiskAfter(fs, ok) ==
    [p \in DOMAIN disk |->
        IF \E i \in 1..Len(fs) : fs[i].path = p /\ p \in ok
        THEN Written(fs[CHOOSE i \in 1..Len(fs) : fs[i].path = p])
        ELSE disk[p]]

\* the values typed into the title, artist and album fields
EditInputs == {"x"}

\* the results whose Apply button can be pressed
ApplyInputs == {m \in ResultInputs : m.title = "Song B" /\ m.cover_url # Absent}

\* download_image(url): the bytes behind the url; Err without a url or when the
\* download fails. The bytes remember the file they were downloaded for.
DownloadImage(url, of, fetched) ==
    IF url = Absent THEN Err("No URL provided")
    ELSE IF ~fetched THEN Err("fetch")
    ELSE Ok([url |-> url[1], of |-> of])

\* the seconds elapsed, one more; no further count once past limit
Older(age, limit) ==
    IF age = Absent THEN Absent
    ELSE IF age[1] > limit THEN age ELSE Some(age[1] + 1)

\* the application runs while its window is open
AppRunning == window = "open"

\* no manual edit awaits its save once a save was attempted on the files of fs
SaveAttempted(fs) ==
    IF pending_edit # Absent /\ \E i \in 1..Len(fs) : fs[i].path = pending_edit[1]
    THEN Absent ELSE pending_edit

\* what the handlers of the editor leave alone outside the editor
EditUnchanged ==
    /\ UNCHANGED <<settings, target, pc, ret, r, sent, access_token, lastStatus,
                   hadToken, first401, calls, overtaken, agg, results, panicked,
                   normVars, tokenVars, appVars>>
    /\ UNCHANGED <<search_results, search_images, is_searching, thumbs, shown>>

\* Message::OpenFolder
OpenFolder ==
    /\ AppRunning
    /\ ~picking
    /\ opens < MaxOpens
    /\ opens' = opens + 1
    /\ is_loading' = TRUE
    /\ picking' = TRUE
    /\ UNCHANGED <<files, current_dir, toasts, toast_age, selected_file_index,
                   has_unsaved_changes, last_edit_time, show_exit_confirmation,
                   window, disk, loads,
                   covers, save_queued, pending_edit, edits>>
    /\ EditUnchanged

\* Message::FolderPicked(path): Some(path) starts load_files, None ends the loading
FolderPicked(path) ==
    /\ AppRunning
    /\ picking
    /\ picking' = FALSE
    /\ IF path # Absent
       THEN /\ current_dir' = path
            /\ loads' = loads \cup {path[1]}
            /\ UNCHANGED is_loading
       ELSE /\ is_loading' = FALSE
            /\ UNCHANGED <<current_dir, loads>>
    /\ UNCHANGED <<files, toasts, toast_age, selected_file_index,
                   has_unsaved_changes, last_edit_time, show_exit_confirmation,
                   window, disk,
                   covers, save_queued, pending_edit, edits, opens>>
    /\ EditUnchanged

\* a FilesLoaded that keeps the selection
SelectionKept(sel) == sel

\* FilesLoaded: self.selected_file_index = None
SelectionAfterLoad(sel) == Absent

\* Message::FilesLoaded(files) of the load_files task of the folder d
FilesLoaded(d) ==
    /\ AppRunning
    /\ d \in loads
    /\ loads' = loads \ {d}
    /\ files' = ScanFolder(d)
    /\ is_loading' = FALSE
    /\ selected_file_index' = SelectionAfterLoad(selected_file_index)
    /\ UNCHANGED <<current_dir, toasts, toast_age, has_unsaved_changes,
                   last_edit_time, show_exit_confirmation, window,
                   disk, picking, covers, save_queued,
                   pending_edit, edits, opens>>
    /\ EditUnchanged

\* the body of Message::SavePressed on the selection sel: the selected file is
\* saved; ok tells whether file.save() succeeds
SaveSelected(sel, ok) ==
    IF sel = Absent
    THEN UNCHANGED <<disk, has_unsaved_changes, last_edit_time, toasts, toast_age,
                     pending_edit, edits, opens>>
    ELSE LET file == files[sel[1] + 1] IN
         /\ pending_edit' = SaveAttempted(<<file>>)
         /\ IF ok
            THEN /\ disk' = DiskAfter(<<file>>, {file.path})
                 /\ Add("Success")
                 /\ has_unsaved_changes' = FALSE
                 /\ last_edit_time' = Absent
            ELSE /\ Add("Error")
                 /\ UNCHANGED <<disk, has_unsaved_changes, last_edit_time>>

\* Message::FileSelected(index), index below the number of files: with unsaved
\* changes the handler first runs SavePressed on the old selection
FileSelected(index) ==
    /\ AppRunning
    /\ index < Len(files)
    /\ IF has_unsaved_changes
       THEN /\ \E ok \in BOOLEAN : SaveSelected(selected_file_index, ok)
            /\ save_queued' = save_queued
       ELSE UNCHANGED <<disk, has_unsaved_changes, last_edit_time, toasts,
                        toast_age, pending_edit, save_queued>>
    /\ selected_file_index' = Some(index)
    /\ UNCHANGED <<edits, opens, files, current_dir, is_loading, show_exit_confirmation,
                   window, picking,
                   loads, covers>>
    /\ EditUnchanged

\* the selected file with one field set by hand
Edited(field, val) ==
    LET i == selected_file_index[1] + 1 IN
    /\ files' = [files EXCEPT ![i] = [@ EXCEPT ![field] = val]]
    /\ has_unsaved_changes' = TRUE
    /\ last_edit_time' = Some(0)
    /\ pending_edit' = Some(files[i].path)
    /\ edits' = edits + 1

\* what TitleChanged, ArtistChanged and AlbumChanged leave alone
EditFrame ==
    /\ UNCHANGED <<opens, current_dir, is_loading, toasts, toast_age, selected_file_index,
                   show_exit_confirmation, window, disk, picking, loads, covers, save_queued>>
    /\ EditUnchanged

\* Message::TitleChanged(val)
TitleChanged(val) ==
    /\ AppRunning
    /\ selected_file_index # Absent
    /\ edits < MaxEdits
    /\ Edited("title", val)
    /\ EditFrame

\* Message::ArtistChanged(val)
ArtistChanged(val) ==
    /\ AppRunning
    /\ selected_file_index # Absent
    /\ edits < MaxEdits
    /\ Edited("artist", val)
    /\ EditFrame

\* Message::AlbumChanged(val)
AlbumChanged(val) ==
    /\ AppRunning
    /\ selected_file_index # Absent
    /\ edits < MaxEdits
    /\ Edited("album", val)
    /\ EditFrame

\* Message::SavePressed, from the button or from Tick
SavePressed ==
    /\ AppRunning
    /\ \E ok \in BOOLEAN : SaveSelected(selected_file_index, ok)
    /\ save_queued' = FALSE
    /\ UNCHANGED <<edits, opens, files, current_dir, is_loading, selected_file_index,
                   show_exit_confirmation, window, picking, loads, covers>>
    /\ EditUnchanged

\* Message::ApplyMetadata(meta): the texts of the result go to the selected file,
\* download_image is started for its cover
ApplyMetadata(meta) ==
    /\ AppRunning
    /\ selected_file_index # Absent
    /\ Cardinality(covers) < MaxCovers
    /\ edits < MaxEdits
    /\ edits' = edits + 1
    /\ LET i == selected_file_index[1] + 1 IN
       /\ files' = [files EXCEPT ![i] = [@ EXCEPT !.title = meta.title,
                                                  !.artist = meta.artist,
                                                  !.album = meta.album]]
       /\ covers' = covers \cup {[url |-> meta.cover_url, of |-> files[i].path]}
    /\ UNCHANGED <<current_dir, is_loading, toasts, toast_age, selected_file_index,
                   has_unsaved_changes, last_edit_time, show_exit_confirmation,
                   window, disk,
                   picking, loads, save_queued, pending_edit, opens>>
    /\ EditUnchanged

\* Message::CoverDownloaded(result) of the download_image task k
CoverDownloaded(k) ==
    /\ AppRunning
    /\ covers' = covers \ {k}
    /\ \E fetched \in BOOLEAN :
          LET res == DownloadImage(k.url, k.of, fetched)
              idx == selected_file_index
          IN  IF res.ok
              THEN IF idx # Absent
                   THEN /\ files' = [files EXCEPT ![idx[1] + 1] =
                                        [@ EXCEPT !.picture_data = Some(res.val)]]
                        /\ Add("Success")
                   ELSE UNCHANGED <<files, toasts, toast_age>>
              ELSE /\ Add("Error")
                   /\ UNCHANGED files
    /\ UNCHANGED <<current_dir, is_loading, selected_file_index,
                   has_unsaved_changes, last_edit_time, show_exit_confirmation,
                   window, disk,
                   picking, loads, save_queued, pending_edit, edits, opens>>
    /\ EditUnchanged

\* App::perform_save_all: every file is saved, the files of ok with success
PerformSaveAll(ok) ==
    LET success_count == Cardinality(ok)
        error_count == Len(files) - success_count
    IN  /\ disk' = DiskAfter(files, ok)
        /\ pending_edit' = SaveAttempted(files)
        /\ IF error_count = 0 /\ success_count > 0
           THEN Add("Success")
           ELSE IF error_count > 0
           THEN Add("Error")
           ELSE UNCHANGED <<toasts, toast_age>>
        /\ has_unsaved_changes' = FALSE

\* Message::SaveAll
SaveAll ==
    /\ AppRunning
    /\ \E ok \in SaveOutcomes(files) : PerformSaveAll(ok)
    /\ UNCHANGED <<edits, opens, files, current_dir, is_loading, selected_file_index,
                   last_edit_time, show_exit_confirmation, window,
                   picking, loads, covers,
                   save_queued>>
    /\ EditUnchanged

\* a CloseRequested that closes the window whatever is unsaved
ClosesAlways(unsaved) == TRUE

\* CloseRequested: if self.has_unsaved_changes { .. } else { window::close }
ClosesDirectly(unsaved) == ~unsaved

\* Message::CloseRequested
CloseRequested ==
    /\ AppRunning
    /\ IF ClosesDirectly(has_unsaved_changes)
       THEN /\ window' = "closed"
            /\ UNCHANGED show_exit_confirmation
       ELSE /\ show_exit_confirmation' = TRUE
            /\ UNCHANGED window
    /\ UNCHANGED <<files, current_dir, is_loading, toasts, toast_age,
                   selected_file_index, has_unsaved_changes, last_edit_time,
                   disk, picking, loads, covers,
                   save_queued, pending_edit, edits, opens>>
    /\ EditUnchanged

\* Message::ConfirmExit(save), from the buttons of the exit confirmation
ConfirmExit(save) ==
    /\ AppRunning
    /\ show_exit_confirmation
    /\ show_exit_confirmation' = FALSE
    /\ IF save
       THEN \E ok \in SaveOutcomes(files) : PerformSaveAll(ok)
       ELSE UNCHANGED <<disk, pending_edit, toasts, toast_age,
                        has_unsaved_changes>>
    /\ window' = "closed"
    /\ UNCHANGED <<edits, opens, files, current_dir, is_loading, selected_file_index,
                   last_edit_time, picking, loads, covers, save_queued>>
    /\ EditUnchanged

\* Message::CancelExit, from the Cancel button of the exit confirmation
CancelExit ==
    /\ AppRunning
    /\ show_exit_confirmation
    /\ show_exit_confirmation' = FALSE
    /\ UNCHANGED <<files, current_dir, is_loading, toasts, toast_age,
                   selected_file_index, has_unsaved_changes, last_edit_time,
                   window, disk,
                   picking, loads, covers, save_queued, pending_edit, edits, opens>>
    /\ EditUnchanged

\* Message::Tick, sent every 100 ms while has_unsaved_changes: SavePressed once
\* the last edit is more than a second old
Tick ==
    /\ AppRunning
    /\ has_unsaved_changes
    /\ save_queued' =
          (save_queued \/ (last_edit_time # Absent /\ last_edit_time[1] > AutoSaveDelay))
    /\ UNCHANGED <<files, current_dir, is_loading, toasts, toast_age,
                   selected_file_index,
                   has_unsaved_changes, last_edit_time, show_exit_confirmation,
                   window, disk,
                   picking, loads, covers, pending_edit, edits, opens>>
    /\ EditUnchanged

\* a second passes
TimePasses ==
    /\ AppRunning
    /\ last_edit_time' = Older(last_edit_time, AutoSaveDelay)
    /\ toast_age' = Older(toast_age, ToastDuration)
    /\ \/ last_edit_time' # last_edit_time
       \/ toast_age' # toast_age
    /\ UNCHANGED <<files, current_dir, is_loading, toasts, selected_file_index,
                   has_unsaved_changes, show_exit_confirmation, window, disk, picking, loads,
                   covers, save_queued, pending_edit, edits, opens>>
    /\ EditUnchanged

\* App::default, the audio files on disk without tags
InitEdit ==
    /\ search_results = <<>>
    /\ search_images = <<>>
    /\ is_searching = FALSE
    /\ is_loading = FALSE
    /\ files = <<>>
    /\ current_dir = Absent
    /\ thumbs = {}
    /\ toasts = {}
    /\ toast_age = Absent
    /\ shown = 0
    /\ selected_file_index = Absent
    /\ has_unsaved_changes = FALSE
    /\ last_edit_time = Absent
    /\ show_exit_confirmation = FALSE
    /\ window = "open"
    /\ disk = [p \in Paths |-> Untagged]
    /\ picking = FALSE
    /\ loads = {}
    /\ covers = {}
    /\ save_queued = FALSE
    /\ pending_edit = Absent
    /\ edits = 0
    /\ opens = 0
    /\ app_settings = DefaultSettings
    /\ tasks = <<>>
    /\ CallIdle
    /\ NormIdle

NextEdit ==
    \/ OpenFolder
    \/ \E path \in OptOf(Folders) : FolderPicked(path)
    \/ \E d \in Folders : FilesLoaded(d)
    \/ \E index \in 0..(MaxFolder - 1) : FileSelected(index)
    \/ \E val \in EditInputs : TitleChanged(val)
    \/ \E val \in EditInputs : ArtistChanged(val)
    \/ \E val \in EditInputs : AlbumChanged(val)
    \/ SavePressed
    \/ \E meta \in ApplyInputs : ApplyMetadata(meta)
    \/ \E k \in covers : CoverDownloaded(k)
    \/ SaveAll
    \/ CloseRequested
    \/ \E save \in BOOLEAN : ConfirmExit(save)
    \/ CancelExit

EditSpec == InitEdit /\ [][NextEdit]_vars

\* editing by hand and the automatic save, with the time that passes
NextAutoSave ==
    \/ OpenFolder
    \/ \E path \in OptOf(Folders) : FolderPicked(path)
    \/ \E d \in Folders : FilesLoaded(d)
    \/ \E index \in 0..(MaxFolder - 1) : FileSelected(index)
    \/ \E val \in EditInputs : TitleChanged(val)
    \/ SavePressed
    \/ Tick
    \/ TimePasses

AutoSaveSpec == InitEdit /\ [][NextAutoSave]_vars


----------------------------------------------------------------------------
(* Properties *)

Returned == target = "all" /\ agg = "returned"

\* the client of p was constructed and its search launched
Launched(p) == InFlight(p) \/ ret[p] # NoRet

\* what the client of p handed to search_all: its list, or nothing on failure
Block(p) == IF ret[p].ok THEN ret[p].val ELSE <<>>

\* the records of the returned list that carry the source tag of p
FromSource(p) ==
    LET IsFrom(m) == m.source = p IN SelectSeq(results, IsFrom)

\* HTTP requests sent to provider p during the current call
SentTo(p) ==
    IF p = Spotify THEN sent["spotify_token"] + sent["spotify_search"]
    ELSE sent[EndpointOf(p)]

\* C1: search_all has no error outcome: whatever the settings and whatever each
\* provider's search does (success, config, auth, transport, status or parse
\* failure), no panic unwinds out of the call and what it returns is a list of
\* MetadataResult.
C1_SearchAllNeverFails ==
    target = "all" =>
        /\ ~panicked
        /\ agg \in {"running", "returned"}
        /\ \A p \in Providers : r[p] \in Seq(MetadataResult)
        /\ agg = "returned" => results \in Seq(MetadataResult)

\* search_all has returned although all four providers were queried and every one
\* of them failed, each in a different way
C1_Witness ==
    /\ Returned
    /\ ret[Apple] = Err("parse")
    /\ ret[Spotify] = Err("auth")
    /\ ret[Genius] = Err("status")
    /\ ret[LastFm] = Err("request")
    /\ results = <<>>

\* C2: failure isolation: a provider whose search failed contributes no record, and
\* every other provider whose search succeeded contributes exactly the list its
\* client returned.
C2_FailureIsolation ==
    Returned =>
        \A p \in Providers :
            ~ret[p].ok =>
                /\ FromSource(p) = <<>>
                /\ \A q \in Providers \ {p} : ret[q].ok => FromSource(q) = ret[q].val

\* the Spotify search failed on its request, and the three other providers each
\* returned records, which search_all has returned
C2_Witness ==
    /\ Returned
    /\ ret[Spotify] = Err("request")
    /\ \A q \in Providers \ {Spotify} : ret[q].ok /\ Len(ret[q].val) >= 1
    /\ Len(results) >= 3

\* C3: whatever the order of completion, the returned list is the Apple Music block,
\* then the Spotify block, then the Genius block, then the Last.fm block, each as
\* its client returned it.
C3_FixedProviderOrder ==
    Returned =>
        results = Block(Apple) \o Block(Spotify) \o Block(Genius) \o Block(LastFm)

\* all four providers returned several records, and one of them returned before a
\* provider placed before it
C3_Witness ==
    /\ Returned
    /\ overtaken
    /\ \A p \in Providers : ret[p].ok /\ Len(ret[p].val) = MaxItems
    /\ Len(results) = 4 * MaxItems

\* C4: no HTTP request, search or token exchange, is sent to a provider whose enable
\* flag is false.
C4_DisabledNoRequest ==
    target = "all" =>
        \A p \in Providers :
            ~EnableFlag(p) => \A e \in EndpointsOf(p) : sent[e] = 0

\* Spotify is disabled with both credentials set, the three other providers were
\* queried, and search_all has returned
C4_Witness ==
    /\ Returned
    /\ ~settings.enable_spotify
    /\ settings.spotify_id # "" /\ settings.spotify_secret # ""
    /\ \A p \in Providers \ {Spotify} : EnableFlag(p) /\ SentTo(p) = 1
    /\ SentTo(Spotify) = 0

\* eligibility as the specification defines it: the flag, and every credential the
\* provider needs non-empty
SpecEligible(p) ==
    CASE p = Apple   -> settings.enable_apple_music
      [] p = Spotify -> /\ settings.enable_spotify
                        /\ settings.spotify_id # ""
                        /\ settings.spotify_secret # ""
      [] p = Genius  -> settings.enable_genius /\ settings.genius_token # ""
      [] p = LastFm  -> settings.enable_lastfm /\ settings.lastfm_api_key # ""

\* C5: a provider's client is constructed and its search launched if and only if the
\* provider is eligible: flag true and every required credential non-empty
\* (spotify_id and spotify_secret for Spotify).
C5_LaunchedIffEligible ==
    target = "all" =>
        \A p \in Providers :
            /\ Launched(p) => SpecEligible(p)
            /\ (pc[p] # "init" /\ SpecEligible(p)) => Launched(p)

\* C6: a Spotify client that held a token and got 401 on its search performs exactly
\* one token exchange and exactly one retried search (given the exchange succeeded),
\* and a retried search answered 401 ends the call with a failure.
C6_RetryOnceThenFail ==
    (pc[Spotify] = "done" /\ hadToken /\ first401) =>
        /\ sent["spotify_token"] = 1
        /\ sent["spotify_search"] = (IF ret[Spotify] = Err("auth") THEN 1 ELSE 2)
        /\ (sent["spotify_search"] = 2 /\ lastStatus[Spotify] = Unauthorized)
               => ~ret[Spotify].ok

\* C7 as stated: at most two round trips when the search is not rejected with 401,
\* at most three in total when it is, whatever the starting auth state.
C7_AtMostThreeRoundTrips ==
    /\ ~first401 => SentTo(Spotify) <= 2
    /\ first401 => SentTo(Spotify) <= 3

\* C7 amended: at most two round trips when the first search is not rejected with
\* 401; when it is, at most three for a client that started with a token and at
\* most four for a client that started without one.
C7_RoundTripsByStartState ==
    /\ ~first401 => SentTo(Spotify) <= 2
    /\ (first401 /\ hadToken) => SentTo(Spotify) <= 3
    /\ (first401 /\ ~hadToken) => SentTo(Spotify) <= 4

\* a search on a cold client has ended after four round trips: token exchange,
\* search answered 401, second token exchange, retried search
C7_Witness ==
    /\ pc[Spotify] = "done"
    /\ ~hadToken
    /\ first401
    /\ sent["spotify_token"] = 2
    /\ sent["spotify_search"] = 2

\* C8: a search response with a non-2xx status (Spotify's first 401 apart) makes the
\* provider's search return a failure, whatever the body holds.
C8_NonSuccessStatusFails ==
    \A p \in Providers :
        (pc[p] = "done" /\ lastStatus[p] # 0 /\ ~IsSuccess(lastStatus[p]))
            => ~ret[p].ok

\* C9: with an empty Genius token (Last.fm API key) no request is ever sent to that
\* provider: the client's search returns the configuration failure, and search_all
\* returns no record of that provider and does not fail.
C9_EmptyCredentialNoRequest ==
    \A p \in {Genius, LastFm} :
        (IF p = Genius THEN settings.genius_token ELSE settings.lastfm_api_key) = ""
            => /\ sent[EndpointOf(p)] = 0
               /\ (target = p /\ pc[p] = "done") => ret[p] = Err("config")
               /\ target = "all" => ~panicked /\ r[p] = <<>>
               /\ Returned => FromSource(p) = <<>>

\* a Genius client constructed with an empty token was asked to search and has
\* returned
C9_Witness ==
    /\ target = Genius
    /\ settings.genius_token = ""
    /\ calls >= 1
    /\ pc[Genius] = "done"
    /\ ret[Genius] = Err("config")

\* C10: search_all returns only after all four branches have settled: once it has
\* returned no request it launched is in flight and every launched search has
\* produced its Result.
C10_ReturnsAfterAllSettled ==
    Returned =>
        \A p \in Providers :
            /\ pc[p] = "done"
            /\ ~InFlight(p)
            /\ Launched(p) => ret[p] # NoRet

\* all four providers were queried, a slower provider was overtaken, one search
\* failed, and search_all returned with the records of the others
C10_Witness ==
    /\ Returned
    /\ overtaken
    /\ \A p \in Providers : Launched(p) /\ SentTo(p) >= 1
    /\ ~ret[Genius].ok
    /\ ret[Apple].ok /\ ret[LastFm].ok /\ ret[Spotify].ok
    /\ Len(results) >= 3

\* C11: provided every HTTP request eventually settles, every search_all call
\* eventually returns; a Spotify server that keeps answering 401 cannot keep the
\* call from returning.
C11_SearchAllEventuallyReturns ==
    (target = "all") ~> (agg = "returned")

\* search_all has returned although Spotify answered 401 to the first search and
\* to the retried one
C11_Witness ==
    /\ Returned
    /\ first401
    /\ lastStatus[Spotify] = Unauthorized
    /\ sent["spotify_token"] = 2
    /\ sent["spotify_search"] = 2

\* C12: with all four providers disabled search_all sends no HTTP request, builds
\* no client and returns the empty list, whatever the credentials are.
C12_AllDisabledEmptyNoCalls ==
    (target = "all" /\ \A p \in Providers : ~EnableFlag(p)) =>
        /\ \A e \in Endpoints : sent[e] = 0
        /\ \A p \in Providers : ~Launched(p)
        /\ agg = "returned" => results = <<>>

\* search_all has returned with every provider disabled and every credential set
C12_Witness ==
    /\ Returned
    /\ \A p \in Providers : ~EnableFlag(p)
    /\ settings.spotify_id # "" /\ settings.spotify_secret # ""
    /\ settings.genius_token # "" /\ settings.lastfm_api_key # ""
    /\ results = <<>>

\* how many times record m occurs in seq
Count(seq, m) == Cardinality({i \in 1..Len(seq) : seq[i] = m})

\* C13: the returned list holds exactly the records the four clients returned:
\* each record as many times as the clients returned it, nothing added, dropped,
\* merged or de-duplicated, and each future's output is its client's list.
C13_ExactConcatenation ==
    Returned =>
        /\ \A p \in Providers : r[p] = Block(p)
        /\ Len(results) = Len(Block(Apple)) + Len(Block(Spotify))
                             + Len(Block(Genius)) + Len(Block(LastFm))
        /\ \A m \in MetadataResult :
              Count(results, m) = Count(Block(Apple), m) + Count(Block(Spotify), m)
                                  + Count(Block(Genius), m) + Count(Block(LastFm), m)

\* every client returned MaxItems records, Apple Music and Last.fm the same record
\* MaxItems times, and search_all returned all of them
C13_Witness ==
    /\ Returned
    /\ \A p \in Providers : ret[p].ok /\ Len(ret[p].val) = MaxItems
    /\ \A p \in {Apple, LastFm} :
          \A i \in 1..MaxItems : ret[p].val[i] = ret[p].val[1]
    /\ ret[Spotify].val[MaxItems] # ret[Spotify].val[1]
    /\ Count(results, ret[Apple].val[1]) = MaxItems

\* the position in results where the block of the i-th provider starts
BlockStart(i) ==
    IF i = 1 THEN 0
    ELSE IF i = 2 THEN Len(Block(Apple))
    ELSE IF i = 3 THEN Len(Block(Apple)) + Len(Block(Spotify))
    ELSE Len(Block(Apple)) + Len(Block(Spotify)) + Len(Block(Genius))

\* C16: every record a client returns carries that client's source tag, on the
\* first and on the retried Spotify search alike, and so does every record of
\* that client's block in the list search_all returns.
C16_SourceTagOfProducer ==
    /\ \A p \in Providers :
          \A i \in 1..Len(ret[p].val) : ret[p].val[i].source = p
    /\ Returned =>
          \A i \in 1..Len(ProviderOrder) :
              \A k \in 1..Len(Block(ProviderOrder[i])) :
                  /\ BlockStart(i) + k <= Len(results)
                  /\ results[BlockStart(i) + k].source = ProviderOrder[i]

\* search_all returned four non-empty blocks, the Spotify one from the retried
\* search after a 401
C16_Witness ==
    /\ Returned
    /\ \A p \in Providers : ret[p].ok /\ Len(ret[p].val) > 0
    /\ first401 /\ sent["spotify_search"] = 2
    /\ results[Len(Block(Apple)) + 1].source = Spotify

\* the client of wire_provider has returned
Normalized == normalized # NoRet

\* the title, artist and album fields of a response item, Absent where the key
\* is missing or the provider has no such field
WireTitle(p, item) ==
    CASE p = Apple   -> item.trackName
      [] p = Spotify -> item.name
      [] p = Genius  -> item.title
      [] p = LastFm  -> item.name

WireArtist(p, item) ==
    CASE p = Apple   -> item.artistName
      [] p = Spotify -> IF item.artists = Absent \/ item.artists = Some(<<>>)
                        THEN Absent ELSE Some(item.artists[1][1])
      [] p = Genius  -> item.artist_names
      [] p = LastFm  -> item.artist

WireAlbum(p, item) ==
    CASE p = Apple   -> item.collectionName
      [] p = Spotify -> item.album_name
      [] OTHER       -> Absent

\* the Apple track of the scenario and the record it is to yield
ScenarioTrack ==
    [trackName |-> Some("Song A"), artistName |-> Some("Artist A"),
     collectionName |-> Some("Album A"), artworkUrl100 |-> Some(ScenarioUrl)]

ScenarioResult ==
    [title |-> "Song A", artist |-> "Artist A", album |-> "Album A",
     cover_url |-> Some(<<"http://x/">> \o Pattern600 \o <<"bb.jpg">>),
     source |-> Apple]

\* C17: a client that succeeds returns one record per item of the body, in the
\* body's order, its title, artist and album equal to the item's fields where the
\* item has them (for Spotify the artist is the first of the artists; Genius and
\* Last.fm items have no album field); search_all with that provider alone
\* enabled returns that list, and for the one-track Apple body of the scenario
\* exactly the scenario's record.
C17_OneResultPerItemInOrder ==
    (Normalized /\ normalized.ok) =>
        /\ Len(normalized.val) = Len(body)
        /\ \A i \in 1..Len(body) :
              LET m == normalized.val[i]
                  title == WireTitle(wire_provider, body[i])
                  artist == WireArtist(wire_provider, body[i])
                  album == WireAlbum(wire_provider, body[i])
              IN  /\ title # Absent => m.title = title[1]
                  /\ artist # Absent => m.artist = artist[1]
                  /\ album # Absent => m.album = album[1]
        /\ Returned => results = normalized.val
        /\ (Returned /\ wire_provider = Apple /\ body = <<ScenarioTrack>>) =>
              results = <<ScenarioResult>>

\* search_all returned the scenario's record for the scenario's body
C17_Witness ==
    /\ Returned
    /\ wire_provider = Apple
    /\ body = <<ScenarioTrack>>
    /\ results = <<ScenarioResult>>

\* C18: whatever title, artist or album key is missing from an item, the client
\* succeeds, returns one record per item, and the record of that item has the
\* empty string in that field.
C18_MissingFieldYieldsEmpty ==
    Normalized =>
        /\ normalized.ok
        /\ Len(normalized.val) = Len(body)
        /\ \A i \in 1..Len(body) :
              LET m == normalized.val[i]
                  p == wire_provider
              IN  /\ WireTitle(p, body[i]) = Absent => m.title = ""
                  /\ WireArtist(p, body[i]) = Absent => m.artist = ""
                  /\ (p \in {Apple, Spotify} /\ WireAlbum(p, body[i]) = Absent)
                        => m.album = ""

\* the images of a Last.fm track; none when the key is missing
ImagesOf(track) == IF track.image = Absent THEN <<>> ELSE track.image[1]

\* the image list holds an image of that size with a non-empty URL
HasImage(images, size) ==
    \E k \in 1..Len(images) : images[k].size = size /\ images[k].url # <<>>

\* cover is the URL of some image of that size with a non-empty URL
IsImageOf(cover, images, size) ==
    \E k \in 1..Len(images) :
        images[k].size = size /\ images[k].url # <<>> /\ cover = Some(images[k].url)

\* C19 as stated: the cover is the URL of an extralarge image with a non-empty URL
\* if the list holds one, else of a large image with a non-empty URL if the list
\* holds one, else absent.
C19_AnyTaggedImage ==
    (Normalized /\ normalized.ok /\ wire_provider = LastFm) =>
        \A i \in 1..Len(body) :
            LET images == ImagesOf(body[i])
                cover == normalized.val[i].cover_url
            IN  IF HasImage(images, "extralarge")
                THEN IsImageOf(cover, images, "extralarge")
                ELSE IF HasImage(images, "large")
                THEN IsImageOf(cover, images, "large")
                ELSE cover = Absent

\* the first image of that size in the list has a non-empty URL
FirstHasUrl(images, size) ==
    \E k \in 1..Len(images) :
        /\ images[k].size = size /\ images[k].url # <<>>
        /\ \A j \in 1..(k - 1) : images[j].size # size

\* cover is the URL of the first image of that size
IsFirstImageOf(cover, images, size) ==
    \E k \in 1..Len(images) :
        /\ images[k].size = size /\ cover = Some(images[k].url)
        /\ \A j \in 1..(k - 1) : images[j].size # size

\* C19, amended: the cover is the URL of the first image tagged extralarge if that
\* URL is non-empty; else the URL of the first image tagged large if that URL is
\* non-empty; else absent, as it is for an empty or missing image list.
C19_FirstTaggedImage ==
    (Normalized /\ normalized.ok /\ wire_provider = LastFm) =>
        \A i \in 1..Len(body) :
            LET images == ImagesOf(body[i])
                cover == normalized.val[i].cover_url
            IN  IF FirstHasUrl(images, "extralarge")
                THEN IsFirstImageOf(cover, images, "extralarge")
                ELSE IF FirstHasUrl(images, "large")
                THEN IsFirstImageOf(cover, images, "large")
                ELSE cover = Absent

\* a track whose first extralarge image has an empty URL and whose second has one:
\* the client returned it without a cover
C19_Witness ==
    /\ Normalized /\ normalized.ok /\ wire_provider = LastFm
    /\ Len(body) = 1
    /\ ImagesOf(body[1]) = <<[url |-> <<>>, size |-> "extralarge"],
                             [url |-> <<"u1">>, size |-> "extralarge"]>>
    /\ normalized.val[1].cover_url = Absent

\* pat occurs in u at place s
OccursAt(u, pat, s) ==
    /\ s >= 1 /\ s + Len(pat) - 1 <= Len(u)
    /\ SubSeq(u, s, s + Len(pat) - 1) = pat

Contains(u, pat) == \E s \in 1..Len(u) : OccursAt(u, pat, s)

\* C20: an absent artwork URL stays absent; a URL without 100x100 is passed
\* through unchanged; a URL with 100x100 comes out as long as it was, with no
\* 100x100 left in it, with 600x600 where its first 100x100 was, and differing
\* from the original only inside a 100x100 that has become a 600x600.
C20_CoverUrlResolution ==
    (Normalized /\ wire_provider = Apple) =>
        \A i \in 1..Len(body) :
            LET in == body[i].artworkUrl100
                out == normalized.val[i].cover_url
            IN  IF in = Absent THEN out = Absent
                ELSE /\ out # Absent
                     /\ Len(out[1]) = Len(in[1])
                     /\ ~Contains(in[1], Pattern100) => out[1] = in[1]
                     /\ ~Contains(out[1], Pattern100)
                     /\ \A s \in 1..Len(in[1]) :
                           (/\ OccursAt(in[1], Pattern100, s)
                            /\ \A t \in 1..(s - 1) : ~OccursAt(in[1], Pattern100, t))
                           => OccursAt(out[1], Pattern600, s)
                     /\ \A k \in 1..Len(in[1]) :
                           out[1][k] # in[1][k] =>
                               \E s \in (k - Len(Pattern100) + 1)..k :
                                   /\ OccursAt(in[1], Pattern100, s)
                                   /\ OccursAt(out[1], Pattern600, s)

\* a URL with two 100x100 in it came out with two 600x600
C20_Witness ==
    /\ Normalized /\ wire_provider = Apple
    /\ Len(body) = 1
    /\ body[1].artworkUrl100 = Some(Pattern100 \o <<"bb.jpg">> \o Pattern100)
    /\ normalized.val[1].cover_url = Some(Pattern600 \o <<"bb.jpg">> \o Pattern600)

\* the search_all calls that have been polled
Polled == {t \in 1..Len(tasks) : tasks[t].state # "spawned"}

\* C14: a search_all call queries the providers that are eligible under the
\* App's settings as they were when the search was started, with the credentials
\* of those settings, whatever the App's settings have become since.
C14_SettingsSnapshot ==
    \A t \in Polled :
        /\ tasks[t].queried =
              {p \in Providers : EligibleIn(tasks[t].started_with, p)}
        /\ \A p \in tasks[t].queried :
              tasks[t].creds[p] = CredsOf(tasks[t].started_with, p)

\* a search started with everything enabled has its Spotify token request in
\* flight, with the credentials it was started with; the settings have since
\* been reset, and a second search, started with them, has queried Apple Music
\* alone
C14_Witness ==
    /\ Polled = {1, 2}
    /\ tasks[1].started_with = AllOn
    /\ tasks[1].queried = Providers
    /\ tasks[1].creds[Spotify] = <<"k", "k">>
    /\ tasks[1].spotify = "auth"
    /\ app_settings = DefaultSettings
    /\ tasks[2].started_with = DefaultSettings
    /\ tasks[2].queried = {Apple}

\* C15: every Spotify search request of a search_all call carries a token that
\* this same call obtained, and goes out after a token exchange of this call: the
\* call's client starts without a token, and no call uses a token of another,
\* concurrent calls included.
C15_FreshClientPerCall ==
    \A t \in Polled :
        /\ \A u \in tasks[t].used : u.tok.call = t /\ u.after >= 1
        /\ tasks[t].token # Absent => tasks[t].token[1].call = t
        /\ Spotify \in tasks[t].queried => tasks[t].exchanges >= 1

\* two calls in flight at once, each searching with a token of its own
C15_Witness ==
    /\ Len(tasks) = 2
    /\ tasks[1].state = "polled" /\ tasks[2].state = "polled"
    /\ tasks[1].spotify = "search" /\ tasks[2].spotify = "search"
    /\ tasks[1].token = Some([call |-> 1, n |-> 1])
    /\ tasks[2].token = Some([call |-> 2, n |-> 1])
    /\ tasks[2].used = {[tok |-> [call |-> 2, n |-> 1], after |-> 1]}

\* C21: search and search_retry make the same of the same Spotify body: both
\* fail, or both return the same list, in which the artist of each record is the
\* first of the track's artists (the empty string if it has none) and the cover
\* its album's first image (absent if it has none).
C21_SamePathNormalization ==
    (wire_provider = Spotify /\ Normalized /\ retried # NoRet) =>
        /\ retried = normalized
        /\ retried.ok =>
              \A i \in 1..Len(body) :
                  LET artists == body[i].artists[1]
                      images == body[i].images[1]
                      m == retried.val[i]
                  IN  /\ m.artist = IF artists = <<>> THEN "" ELSE artists[1]
                      /\ m.cover_url = IF images = <<>> THEN Absent
                                       ELSE Some(images[1])

\* both paths returned the records of a body whose first track has two artists
\* and two images and whose second has none
C21_Witness ==
    /\ wire_provider = Spotify /\ Normalized /\ retried # NoRet /\ retried.ok
    /\ Len(body) = 2
    /\ body[1].artists = Some(<<"Artist A", "Artist B">>)
    /\ body[1].images = Some(<<<<"u1">>, <<"u2">>>>)
    /\ body[2].artists = Some(<<>>) /\ body[2].images = Some(<<>>)
    /\ retried.val[1].artist = "Artist A" /\ retried.val[2].artist = ""
    /\ normalized.val[1].cover_url = Some(<<"u1">>)
    /\ normalized.val[2].cover_url = Absent

----------------------------------------------------------------------------
(* The search panel *)

\* the thumbnail download_thumbnail makes of the cover of a displayed result
ThumbnailOf(result) == Some(<<"png50">> \o result.cover_url[1])

\* the handling of the failed thumbnail task k: the only step that takes k out of
\* the tasks in flight
FailureHandled(k) ==
    /\ k.result # NoRet
    /\ ~k.result.ok
    /\ thumbs' = thumbs \ {k}

\* C22: a failed thumbnail fetch, decode or resize for the index i leaves the
\* index i without a thumbnail and changes nothing else: the results, the other
\* thumbnails and the other tasks in flight stay as they are, and no toast is
\* pushed.
C22_FailureLeavesNoThumbnail ==
    [][\A k \in thumbs :
          FailureHandled(k) =>
              /\ search_results' = search_results
              /\ Len(search_images') = Len(search_images)
              /\ \A i \in 1..Len(search_images) :
                    i # k.index + 1 => search_images'[i] = search_images[i]
              /\ toasts' = toasts
              /\ k.index < Len(search_images') =>
                    search_images'[k.index + 1] = Absent]_vars

\* C29: search_images has as many entries as search_results, in every state.
C29_ImagesMatchResults == Len(search_images) = Len(search_results)

\* two results are displayed, the first with its thumbnail stored, the second
\* with its thumbnail task still in flight
C29_Witness ==
    /\ Len(search_results) = 2
    /\ search_results[1].cover_url # Absent
    /\ search_images = <<ThumbnailOf(search_results[1]), Absent>>
    /\ \E k \in thumbs : k.index = 1 /\ k.of = shown

\* C30: a thumbnail held by search_images[i] was made from the cover_url of
\* the result search_results[i] now displayed.
C30_ThumbnailOfDisplayedResult ==
    \A i \in 1..Len(search_images) :
        (i <= Len(search_results) /\ search_images[i] # Absent) =>
            /\ search_results[i].cover_url # Absent
            /\ search_images[i] = ThumbnailOf(search_results[i])

----------------------------------------------------------------------------
(* The Spotify client's token *)

\* the client's search failed in its token exchange
AuthFailed == pc[Spotify] = "done" /\ ret[Spotify] = Err("auth")

\* C23: a 401 on a search clears the cached token before the client
\* authenticates again, so after a failed re-authentication the client holds
\* no token.
C23_TokenClearedOn401 ==
    /\ pc[Spotify] = "reauth" => access_token = None
    /\ (AuthFailed /\ first401) => access_token = None

\* C24: a failed token exchange on a client without a token returns the auth
\* failure and leaves access_token absent; the token field takes a new value only
\* in the step of a successful exchange, the one that goes on to send a search.
C24_TokenWrittenOnSuccessOnly ==
    [][/\ (pc[Spotify] = "auth" /\ access_token = None /\ pc'[Spotify] = "done") =>
              (access_token' = None /\ ret'[Spotify] = Err("auth"))
       /\ (access_token' # access_token /\ access_token' # None) =>
              /\ pc[Spotify] \in {"auth", "reauth"}
              /\ pc'[Spotify] \in {"search", "retry"}
              /\ access_token' = granted']_vars

\* a client whose first call failed to authenticate is called again, and the
\* exchange fails again: still no token
C24_Witness ==
    /\ target = Spotify /\ calls = 2
    /\ AuthFailed /\ ~hadToken /\ ~first401
    /\ access_token = None /\ granted = None

\* C25: a search on a client without a token sends the token request first and
\* no search request before the exchange has succeeded; when the exchange fails
\* the call returns the failure without any search request.
C25_AuthenticateFirst ==
    /\ pc[Spotify] = "auth" =>
          sent["spotify_token"] = 1 /\ sent["spotify_search"] = 0
    /\ (~hadToken /\ sent["spotify_search"] >= 1) => sent["spotify_token"] >= 1
    /\ (AuthFailed /\ ~hadToken /\ ~first401) => sent["spotify_search"] = 0

\* the one call of a cold client ended in the auth failure, one token request and
\* no search request sent
C25_Witness ==
    /\ target = Spotify /\ calls = 1
    /\ AuthFailed /\ ~hadToken
    /\ sent["spotify_token"] = 1 /\ sent["spotify_search"] = 0

\* a Spotify search request is awaiting its response
SearchInFlight == pc[Spotify] \in {"search", "retry"}

\* C26: a Spotify search request carries the token the client's most recent
\* successful exchange returned, which is the token the client holds; none is
\* sent without a token, and the retried search carries the token of the
\* exchange that followed the 401.
C26_BearerIsLatestToken ==
    /\ SearchInFlight =>
          /\ bearer # None
          /\ bearer = granted
          /\ bearer = access_token
    /\ (target = Spotify /\ sent["spotify_search"] >= 1) => bearer # None

\* the second call of a client found its token rejected, obtained another and
\* retries with it
C26_Witness ==
    /\ target = Spotify /\ calls = 2
    /\ hadToken /\ first401 /\ pc[Spotify] = "retry"
    /\ granted = "t2" /\ bearer = "t2"

\* C27: the blocks of search_all do not wait for one another: a block not yet
\* polled can send its first request whatever the others are waiting for, and a
\* request in flight can be answered whatever the others are waiting for.
C27_BranchesIndependent ==
    (target = "all" /\ Running) =>
        /\ \A p \in Providers :
              /\ pc[p] = "init" => ENABLED BranchStart(p)
              /\ pc[p] = "wait" => ENABLED Respond(p)
        /\ pc[Spotify] = "auth" => ENABLED AuthResponse
        /\ pc[Spotify] = "search" => ENABLED SearchResponse
        /\ pc[Spotify] = "reauth" => ENABLED ReauthResponse
        /\ pc[Spotify] = "retry" => ENABLED RetryResponse

\* all four providers eligible, the first request of each in flight at once
C27_Witness ==
    /\ target = "all"
    /\ \A p \in Providers : Eligible(p) /\ InFlight(p)
    /\ \A e \in Endpoints : sent[e] = IF e = "spotify_search" THEN 0 ELSE 1

\* C28: the operations on one client are serialized: a search begins on it
\* only when no search and no token exchange of it is in progress.
C28_OneOperationAtATime ==
    [][calls' = calls + 1 => ~InFlight(target)]_vars

\* the second call of a client, begun after the first completed, is in its
\* re-authentication
C28_Witness ==
    /\ target = Spotify /\ calls = 2
    /\ hadToken /\ pc[Spotify] = "reauth"

----------------------------------------------------------------------------
(* The editor: searches in flight, saving, closing, toasts *)

\* the searches started so far, in the order of their SearchPressed
Searches == {t \in 1..Len(tasks) : tasks[t].kind = "search"}

\* the search started last
LastSearch == CHOOSE t \in Searches : \A u \in Searches : u <= t

\* C31: with two searches in flight the results finally displayed are those of
\* the search started last: once every SearchResults message has been handled,
\* the list on display is the one the last SearchPressed asked for.
C31_LatestSearchShown ==
    (Searches # {} /\ \A t \in Searches : tasks[t].state = "delivered") =>
        shown = LastSearch

\* C32: the cover downloaded for an ApplyMetadata is stored on the file that
\* ApplyMetadata changed: the picture a file holds was downloaded for that file.
C32_CoverOnAppliedFile ==
    \A i \in 1..Len(files) :
        files[i].picture_data # Absent => files[i].picture_data[1].of = files[i].path

\* C33: selected_file_index is absent or a valid index into files.
C33_SelectionValid ==
    selected_file_index # Absent => selected_file_index[1] < Len(files)

\* a file was selected and edited, then the smaller folder was loaded over it
C33_Witness ==
    /\ edits = 1 /\ opens = 2 /\ loads = {} /\ ~picking
    /\ Len(files) = FolderSize("Album B")
    /\ files[1].path[1] = "Album B" /\ files[1].title = Stem(files[1].path)
    /\ selected_file_index = Absent

\* the file f holds a title, artist, album or cover that its last successful
\* save did not write
Unsaved(f) ==
    \/ f.title # Load(f.path).title
    \/ f.artist # Load(f.path).artist
    \/ f.album # Load(f.path).album
    \/ /\ f.picture_data # Absent
       /\ f.picture_data # disk[f.path].first
       /\ f.picture_data # disk[f.path].last

\* C34: whenever some file holds in memory a title, artist, album or cover that
\* differs from what was last saved for it, has_unsaved_changes is true.
C34_ChangesAreFlagged ==
    (\E i \in 1..Len(files) : Unsaved(files[i])) => has_unsaved_changes

\* C35: has_unsaved_changes is cleared only by a save that succeeded: a step
\* that clears it wrote the selected file (SavePressed) or every file (SaveAll,
\* Save & Quit).
C35_ClearedBySuccessOnly ==
    [][(has_unsaved_changes /\ ~has_unsaved_changes') =>
          \/ /\ selected_file_index # Absent
             /\ disk' = DiskAfter(<<files[selected_file_index[1] + 1]>>,
                                  {files[selected_file_index[1] + 1].path})
          \/ disk' = DiskAfter(files, {files[i].path : i \in 1..Len(files)})]_vars

\* C36: an edit made by hand never stays without a save attempt: while no save
\* was attempted on the edited file since the edit, the file is still the
\* selected one and has_unsaved_changes keeps the Tick coming that will save it.
C36_EditAwaitsSave ==
    pending_edit # Absent =>
        /\ has_unsaved_changes
        /\ selected_file_index # Absent
        /\ selected_file_index[1] < Len(files)
        /\ files[selected_file_index[1] + 1].path = pending_edit[1]

C38_ToastsExpire ==
    toast_age # Absent => toast_age[1] <= ToastDuration

====
